---- MODULE Spec2Model ----
(***************************************************************************)
(* Control-file codec of aptly (deb/format.go): the stanza reader          *)
(* (ControlFileReader.ReadStanza / ReadBufferedStanza), the stanza writer  *)
(* (Stanza.WriteTo / writeField) and the pure helpers they use.            *)
(*                                                                         *)
(* A Go string or byte slice is a sequence of one-character strings.  The  *)
(* element Block stands for a run of BlockSize bytes 'x', so that values   *)
(* as large as MaxFieldSize can be written down; ByteLen counts bytes.     *)
(* Block occurs in field values and continuation lines only, never in a    *)
(* field name.                                                             *)
(***************************************************************************)
EXTENDS Integers, Sequences, FiniteSets, TLC

VARIABLES
    isRelease,          \* ControlFileReader.isRelease
    isInstaller,        \* ControlFileReader.isInstaller
    lines,              \* the lines of the stream the scanner reads
    pos,                \* number of lines the scanner has delivered
    scanErr,            \* sticky error of the scanner ("nil" or "ErrTooLong")
    pc,                 \* "idle", or "scan" inside the loop of ReadBufferedStanza
    stanza,             \* the stanza being filled by ReadBufferedStanza
    lastField,          \* local lastField
    lastFieldMultiline, \* local lastFieldMultiline
    lastValue,          \* local lastValue (strings.Builder)
    ret,                \* what the last ReadStanza call returned
    ncalls,             \* number of ReadStanza calls made on this reader
    start,              \* value of pos when the current (or last) ReadStanza call began
    phase,              \* "read": reading the input; "back": reading what WriteTo wrote
    orig,               \* the stanza handed to WriteTo
    fromReader,         \* orig was returned by the reader
    isSource,           \* flag isSource of the WriteTo call
    written,            \* the fields WriteTo wrote, in order: [field, text]
    left,               \* the stanza as WriteTo left it
    werr,               \* the error WriteTo returned
    ev,                 \* the step the reader or writer took last
    \* canonicalCase applied to a field name
    cname,              \* the field name given
    canon1,             \* canonicalCase(cname)
    canon2,             \* canonicalCase(canon1)
    casepc,             \* "off", "name", "once", "twice"
    \* a Stanza under Set, Reset and Clear
    st,                 \* the stanza
    stOp,               \* the last operation on it
    stKeys,             \* its keys before the last operation
    \* a Package built from a stanza
    input0,             \* the stanza as it was handed to the constructor
    input,              \* the same stanza, as the constructor has changed it
    pkg,                \* the Package
    pkgpc,              \* "off", "input", "built"
    pkgEv,              \* the last operation on the package
    result,             \* the stanza the last Package.Stanza() returned
    parsed,             \* what the last parseDependencies returned
    alias,              \* "map" when result is the very map of the extra fields
    call,               \* the last call that reads the package, and its outcome
    loads,              \* how often each sub-record was loaded from the collection
    \* a call of ImportPackageFiles
    packageFiles,       \* argument packageFiles
    forceReplace,       \* argument forceReplace
    restricted,         \* a restriction query was given
    packageList,        \* the packages of the argument list (*PackageList)
    listBefore,         \* the same list as it was when the call began
    transaction,        \* "none", "open", "committed", "discarded"
    updated,            \* the packages written by collection.UpdateInTransaction
    processedFiles,     \* named result processedFiles
    failedFiles,        \* named result failedFiles
    importErr,          \* named result err
    outcomes,           \* what happened to each file the loop has visited
    importpc            \* "off", "open", "loop", "returned"

codecVars == <<isRelease, isInstaller, lines, pos, scanErr, pc, stanza, lastField,
               lastFieldMultiline, lastValue, ret, ncalls, start, phase, orig,
               fromReader, isSource, written, left, werr, ev>>

caseVars == <<cname, canon1, canon2, casepc>>

stanzaVars == <<st, stOp, stKeys>>

\* history of the calls that read a package
readVars == <<call, loads>>

pkgVars == <<input0, input, pkg, pkgpc, pkgEv, result, parsed, alias, readVars>>

importVars == <<packageFiles, forceReplace, restricted, packageList, listBefore, transaction, updated,
                processedFiles, failedFiles, importErr, outcomes, importpc>>

vars == <<codecVars, caseVars, stanzaVars, pkgVars, importVars>>

\* what the codec leaves alone
Other == <<caseVars, stanzaVars, pkgVars, importVars>>

(***************************************************************************)
(* Bytes                                                                   *)
(***************************************************************************)
MaxFieldSize == 2 * 1024 * 1024

BlockSize == MaxFieldSize \div 2

Block == "x*BlockSize"

\* ASCII 32..126 ("<grave>" stands for the grave accent, which a TLA+ string cannot hold)
Printable == <<" ","!","\"","#","$","%","&","'","(",")","*","+",",","-",".","/","0","1","2","3","4","5","6","7","8","9",":",";","<","=",">","?","@","A","B","C","D","E","F","G","H","I","J","K","L","M","N","O","P","Q","R","S","T","U","V","W","X","Y","Z","[","\\","]","^","_","<grave>","a","b","c","d","e","f","g","h","i","j","k","l","m","n","o","p","q","r","s","t","u","v","w","x","y","z","{","|","}","~">>

Ord(c) ==
    IF c = "\t" THEN 9
    ELSE IF c = "\n" THEN 10
    ELSE IF c = "\f" THEN 12
    ELSE IF c = "\r" THEN 13
    ELSE 31 + (CHOOSE i \in 1..Len(Printable) : Printable[i] = c)

Chr(n) == Printable[n - 31]

RECURSIVE ByteLen(_)
ByteLen(s) ==
    IF s = <<>> THEN 0
    ELSE (IF Head(s) = Block THEN BlockSize ELSE 1) + ByteLen(Tail(s))

\* unicode.ToUpper / unicode.ToLower on ASCII
ToUpper(c) == IF c # Block /\ Ord(c) \in 97..122 THEN Chr(Ord(c) - 32) ELSE c

ToLower(c) == IF c # Block /\ Ord(c) \in 65..90 THEN Chr(Ord(c) + 32) ELSE c

\* strings.ToUpper
StringsToUpper(s) == [i \in 1..Len(s) |-> ToUpper(s[i])]

\* unicode.IsSpace on ASCII
IsSpace(c) == c \in {" ", "\t", "\n", "\f", "\r"}

RECURSIVE TrimLeft(_)
TrimLeft(s) ==
    IF s # <<>> /\ IsSpace(Head(s)) THEN TrimLeft(Tail(s)) ELSE s

RECURSIVE TrimRight(_)
TrimRight(s) ==
    IF s # <<>> /\ IsSpace(s[Len(s)]) THEN TrimRight(SubSeq(s, 1, Len(s) - 1)) ELSE s

\* bytes.TrimSpace / strings.TrimSpace
TrimSpace(s) == TrimRight(TrimLeft(s))

\* strings.HasSuffix(value, "\n")
HasSuffixNL(value) == value # <<>> /\ value[Len(value)] = "\n"

\* bytes.IndexByte: 0-based index of the first c in s, -1 when there is none
IndexByte(s, c) ==
    IF \E i \in 1..Len(s) : s[i] = c
    THEN (CHOOSE i \in 1..Len(s) : s[i] = c /\ \A j \in 1..(i - 1) : s[j] # c) - 1
    ELSE -1

\* Go's string comparison a < b (bytewise), as sort.Strings uses it
RECURSIVE StrLess(_, _)
StrLess(a, b) ==
    IF b = <<>> THEN FALSE
    ELSE IF a = <<>> THEN TRUE
    ELSE IF Head(a) = Head(b) THEN StrLess(Tail(a), Tail(b))
    ELSE Ord(Head(a)) < Ord(Head(b))

\* sort.Strings over the keys of a map
RECURSIVE SortStrings(_)
SortStrings(keys) ==
    IF keys = {} THEN <<>>
    ELSE LET m == CHOOSE x \in keys : \A y \in keys \ {x} : StrLess(x, y)
         IN  <<m>> \o SortStrings(keys \ {m})

(***************************************************************************)
(* Stanza: map[string]string                                               *)
(***************************************************************************)
EmptyStanza == [k \in {} |-> <<>>]

\* s[key] of a Go map: the zero value "" for a missing key
Get(s, key) == IF key \in DOMAIN s THEN s[key] ELSE <<>>

\* s[key] = value
Put(s, key, value) == [k \in DOMAIN s \cup {key} |-> IF k = key THEN value ELSE s[k]]

\* delete(s, key)
Delete(s, key) == [k \in DOMAIN s \ {key} |-> s[k]]

\* mutant: a stanza is empty when it has no key
Empty_NoKeys(s) == DOMAIN s = {}

Empty(s) == \A k \in DOMAIN s : s[k] = <<>>

\* a Copy that leaves out the keys with an empty value
Copy_NoEmpty(s) == [k \in {j \in DOMAIN s : s[j] # <<>>} |-> s[k]]

Copy(s) == [k \in DOMAIN s |-> s[k]]

(***************************************************************************)
(* Canonical order of fields                                               *)
(***************************************************************************)
canonicalOrderRelease ==
    << <<"O","r","i","g","i","n">>, <<"L","a","b","e","l">>, <<"A","r","c","h","i","v","e">>, <<"S","u","i","t","e">>, <<"V","e","r","s","i","o","n">>, <<"C","o","d","e","n","a","m","e">>,
       <<"D","a","t","e">>, <<"N","o","t","A","u","t","o","m","a","t","i","c">>, <<"B","u","t","A","u","t","o","m","a","t","i","c","U","p","g","r","a","d","e","s">>, <<"A","r","c","h","i","t","e","c","t","u","r","e","s">>,
       <<"A","r","c","h","i","t","e","c","t","u","r","e">>, <<"C","o","m","p","o","n","e","n","t","s">>, <<"C","o","m","p","o","n","e","n","t">>, <<"D","e","s","c","r","i","p","t","i","o","n">>,
       <<"M","D","5","S","u","m">>, <<"S","H","A","1">>, <<"S","H","A","2","5","6">>, <<"S","H","A","5","1","2">> >>

canonicalOrderBinary ==
    << <<"P","a","c","k","a","g","e">>, <<"E","s","s","e","n","t","i","a","l">>, <<"S","t","a","t","u","s">>, <<"P","r","i","o","r","i","t","y">>, <<"S","e","c","t","i","o","n">>,
       <<"I","n","s","t","a","l","l","e","d","-","S","i","z","e">>, <<"M","a","i","n","t","a","i","n","e","r">>, <<"O","r","i","g","i","n","a","l","-","M","a","i","n","t","a","i","n","e","r">>,
       <<"A","r","c","h","i","t","e","c","t","u","r","e">>, <<"S","o","u","r","c","e">>, <<"V","e","r","s","i","o","n">>, <<"R","e","p","l","a","c","e","s">>, <<"P","r","o","v","i","d","e","s">>,
       <<"D","e","p","e","n","d","s">>, <<"P","r","e","-","D","e","p","e","n","d","s">>, <<"R","e","c","o","m","m","e","n","d","s">>, <<"S","u","g","g","e","s","t","s">>, <<"C","o","n","f","l","i","c","t","s">>,
       <<"B","r","e","a","k","s">>, <<"C","o","n","f","f","i","l","e","s">>, <<"F","i","l","e","n","a","m","e">>, <<"S","i","z","e">>, <<"M","D","5","S","u","m">>, <<"M","D","5","s","u","m">>,
       <<"S","H","A","1">>, <<"S","H","A","2","5","6">>, <<"S","H","A","5","1","2">>, <<"D","e","s","c","r","i","p","t","i","o","n">> >>

canonicalOrderSource ==
    << <<"P","a","c","k","a","g","e">>, <<"S","o","u","r","c","e">>, <<"B","i","n","a","r","y">>, <<"V","e","r","s","i","o","n">>, <<"P","r","i","o","r","i","t","y">>, <<"S","e","c","t","i","o","n">>,
       <<"M","a","i","n","t","a","i","n","e","r">>, <<"O","r","i","g","i","n","a","l","-","M","a","i","n","t","a","i","n","e","r">>, <<"B","u","i","l","d","-","D","e","p","e","n","d","s">>,
       <<"B","u","i","l","d","-","D","e","p","e","n","d","s","-","I","n","d","e","p">>, <<"B","u","i","l","d","-","C","o","n","f","l","i","c","t","s">>, <<"B","u","i","l","d","-","C","o","n","f","l","i","c","t","s","-","I","n","d","e","p">>,
       <<"A","r","c","h","i","t","e","c","t","u","r","e">>, <<"S","t","a","n","d","a","r","d","s","-","V","e","r","s","i","o","n">>, <<"F","o","r","m","a","t">>, <<"D","i","r","e","c","t","o","r","y">>,
       <<"F","i","l","e","s">> >>

canonicalOrderInstaller == << <<>> >>

InList(list, x) == \E i \in 1..Len(list) : list[i] = x

\* mutant: Description is not in the switch
isMultilineField_NoDescription(field, release) ==
    IF field \in { <<>>, <<"F","i","l","e","s">>, <<"C","h","a","n","g","e","s">>,
                   <<"C","h","e","c","k","s","u","m","s","-","S","h","a","1">>, <<"C","h","e","c","k","s","u","m","s","-","S","h","a","2","5","6">>,
                   <<"C","h","e","c","k","s","u","m","s","-","S","h","a","5","1","2">>, <<"P","a","c","k","a","g","e","-","L","i","s","t">> }
    THEN TRUE
    ELSE IF field \in { <<"M","D","5","S","u","m">>, <<"S","H","A","1">>, <<"S","H","A","2","5","6">>, <<"S","H","A","5","1","2">> }
    THEN release
    ELSE FALSE

isMultilineField(field, release) ==
    IF field \in { <<>>, <<"D","e","s","c","r","i","p","t","i","o","n">>, <<"F","i","l","e","s">>, <<"C","h","a","n","g","e","s">>,
                   <<"C","h","e","c","k","s","u","m","s","-","S","h","a","1">>, <<"C","h","e","c","k","s","u","m","s","-","S","h","a","2","5","6">>,
                   <<"C","h","e","c","k","s","u","m","s","-","S","h","a","5","1","2">>, <<"P","a","c","k","a","g","e","-","L","i","s","t">> }
    THEN TRUE
    ELSE IF field \in { <<"M","D","5","S","u","m">>, <<"S","H","A","1">>, <<"S","H","A","2","5","6">>, <<"S","H","A","5","1","2">> }
    THEN release
    ELSE FALSE

\* strings.Map with a callback that drops the hyphens
RECURSIVE MapTitle_DropHyphen(_, _)
MapTitle_DropHyphen(s, startOfWord) ==
    IF s = <<>> THEN <<>>
    ELSE IF startOfWord
    THEN <<ToUpper(Head(s))>> \o MapTitle_DropHyphen(Tail(s), FALSE)
    ELSE IF Head(s) = "-" THEN MapTitle_DropHyphen(Tail(s), TRUE)
    ELSE <<ToLower(Head(s))>> \o MapTitle_DropHyphen(Tail(s), FALSE)

\* the strings.Map callback of canonicalCase, with its captured startOfWord
RECURSIVE MapTitle(_, _)
MapTitle(s, startOfWord) ==
    IF s = <<>> THEN <<>>
    ELSE IF startOfWord
    THEN <<ToUpper(Head(s))>> \o MapTitle(Tail(s), FALSE)
    ELSE <<ToLower(Head(s))>> \o MapTitle(Tail(s), Head(s) = "-")

\* canonicalCase without its table of irregular spellings
canonicalCase_NoTable(field) ==
    IF \/ InList(canonicalOrderRelease, field)
       \/ InList(canonicalOrderBinary, field)
       \/ InList(canonicalOrderSource, field)
    THEN field
    ELSE MapTitle(field, TRUE)

canonicalCase(field) ==
    IF \/ InList(canonicalOrderRelease, field)
       \/ InList(canonicalOrderBinary, field)
       \/ InList(canonicalOrderSource, field)
    THEN field
    ELSE LET upper == StringsToUpper(field)
         IN  IF upper = <<"S","H","A","1">> THEN <<"S","H","A","1">>
             ELSE IF upper = <<"S","H","A","2","5","6">> THEN <<"S","H","A","2","5","6">>
             ELSE IF upper = <<"S","H","A","5","1","2">> THEN <<"S","H","A","5","1","2">>
             ELSE IF upper = <<"M","D","5","S","U","M">> THEN <<"M","D","5","S","u","m">>
             ELSE IF upper = <<"N","O","T","A","U","T","O","M","A","T","I","C">> THEN <<"N","o","t","A","u","t","o","m","a","t","i","c">>
             ELSE IF upper = <<"B","U","T","A","U","T","O","M","A","T","I","C","U","P","G","R","A","D","E","S">> THEN <<"B","u","t","A","u","t","o","m","a","t","i","c","U","p","g","r","a","d","e","s">>
             ELSE MapTitle(field, TRUE)

(***************************************************************************)
(* Inputs                                                                  *)
(***************************************************************************)
MaxLines == 3

MaxCalls == 4

\* the lines the input streams are made of
LinePool ==
    { <<>>, <<"P","a","c","k","a","g","e",":"," ","f">>, <<"p","a","c","k","a","g","e",":">>, <<" ","m">>, <<" ">>, <<"F","i","l","e","s",":">>, <<"g">>, <<":","x">> }

\* every line followed by "\n"
RECURSIVE JoinLines(_)
JoinLines(ls) == IF ls = <<>> THEN <<>> ELSE Head(ls) \o <<"\n">> \o JoinLines(Tail(ls))

\* input streams of the documented scenarios, and streams the pool cannot build
Scenarios ==
    { <<"D","e","s","c","r","i","p","t","i","o","n",":"," ","s","h","o","r","t","\n"," ","m","o","r","e","\n"," ",".","\n"," ","s","t","i","l","l"," ","m","o","r","e","\n","\n">>,
      <<"\n","a","b","c","1","2","3"," "," ","f","i","l","e","1",".","d","e","b","\n","d","e","f","4","5","6"," "," ","f","i","l","e","2",".","d","e","b","\n","\n">>,
      <<"P","a","c","k","a","g","e",":"," ","f","o","o","\r","\n","m","d","5","s","u","m",":"," ","1","\n","M","D","5","S","u","m",":","\n"," ","2","\r","\n","\n","S","H","A","1",":"," ","3">>,
      <<"F","i","l","e","s",":"," ","1","\n"," ","2","\n","F","i","l","e","s",":","\n","D","e","p","e","n","d","s",":"," ","a",",","\n","\t","b","\n">>,
      <<"Z","z",":",Block,"\n"," ",Block,"\n","\n","P","a","c","k","a","g","e",":"," ","f","\n">>,
      <<"P","a","c","k","a","g","e",":"," ","f","\n","\n","Z","z",":"," ",Block,Block,"\n","P","a","c","k","a","g","e",":"," ","f","\n">> }

Inputs ==
    {JoinLines(ls) : ls \in UNION {[1..n -> LinePool] : n \in 0..MaxLines}} \cup Scenarios

\* stanzas built by a caller, not by the reader
BuiltStanzas ==
    { [k \in {<<"P","a","c","k","a","g","e">>, <<"Z","Z","Z">>} |-> IF k = <<"P","a","c","k","a","g","e">> THEN <<"f","o","o">> ELSE <<"1">>],
      [k \in {<<>>, <<"Z","z","z">>} |-> IF k = <<>> THEN <<"a"," "," ","b","\n">> ELSE <<"1">>],
      [k \in {<<"a","b","c">>, <<"Z","z","z">>, <<"F","i","l","e","s">>, <<"M","D","5","s","u","m">>, <<"M","D","5","S","u","m">>} |->
          IF k = <<"F","i","l","e","s">> THEN <<" ","1"," ","2"," ","f","\n">> ELSE k],
      [k \in {<<>>, <<"P","a","c","k","a","g","e">>} |-> IF k = <<>> THEN <<"a","b","c"," "," ","f","1","\n","d","e","f"," "," ","f","2">> ELSE <<"i","n","s","t","a","l","l","e","r">>] }

(***************************************************************************)
(* Writer                                                                  *)
(***************************************************************************)
\* the bytes writeField hands to the bufio.Writer
writeField(field, value, release) ==
    IF ~isMultilineField(field, release)
    THEN field \o <<":"," ">> \o value \o <<"\n">>
    ELSE LET v1 == IF field # <<>> /\ ~HasSuffixNL(value) THEN value \o <<"\n">> ELSE value
             v2 == IF field # <<"D","e","s","c","r","i","p","t","i","o","n">> /\ field # <<>> THEN <<"\n">> \o v1 ELSE v1
         IN  IF field # <<>> THEN field \o <<":">> \o v2 ELSE v2

canonicalOrder(source, release, installer) ==
    IF installer THEN canonicalOrderInstaller
    ELSE IF release THEN canonicalOrderRelease
    ELSE IF source THEN canonicalOrderSource
    ELSE canonicalOrderBinary

\* first loop of WriteTo: the fields of the canonical list, each deleted as it is written
RECURSIVE WriteCanonical(_, _, _, _, _)
WriteCanonical(order, i, s, w, release) ==
    IF i > Len(order) THEN [left |-> s, written |-> w]
    ELSE IF order[i] \in DOMAIN s
    THEN WriteCanonical(order, i + 1, Delete(s, order[i]),
                        Append(w, [field |-> order[i],
                                   text |-> writeField(order[i], s[order[i]], release)]),
                        release)
    ELSE WriteCanonical(order, i + 1, s, w, release)

\* mutant: the remaining fields in descending order
WriteExtra_Descending(s, release) ==
    LET keys == SortStrings(DOMAIN s)
    IN  [i \in 1..Len(keys) |->
            [field |-> keys[Len(keys) + 1 - i],
             text |-> writeField(keys[Len(keys) + 1 - i], s[keys[Len(keys) + 1 - i]], release)]]

\* second loop of WriteTo: the remaining fields in sort.Strings order, none deleted
WriteExtra(s, release) ==
    LET keys == SortStrings(DOMAIN s)
    IN  [i \in 1..Len(keys) |->
            [field |-> keys[i], text |-> writeField(keys[i], s[keys[i]], release)]]

\* Stanza.WriteTo on s: what was written, field by field, and what is left of s
WriteTo(s, source, release, installer) ==
    LET c == WriteCanonical(canonicalOrder(source, release, installer), 1, s, <<>>, release)
    IN  IF ~installer
        THEN [left |-> c.left, written |-> c.written \o WriteExtra(c.left, release)]
        ELSE c

\* the byte stream the writer produced
RECURSIVE Flatten(_)
Flatten(w) == IF w = <<>> THEN <<>> ELSE Head(w).text \o Flatten(Tail(w))

(***************************************************************************)
(* Scanner (bufio.Scanner with bufio.ScanLines, buffer limit MaxFieldSize) *)
(***************************************************************************)
\* the stream cut at every "\n"; a last line without "\n" is a line too
RECURSIVE SplitLines(_)
SplitLines(bytes) ==
    IF bytes = <<>> THEN <<>>
    ELSE LET i == IndexByte(bytes, "\n")
         IN  IF i = -1 THEN <<bytes>>
             ELSE <<SubSeq(bytes, 1, i)>> \o SplitLines(SubSeq(bytes, i + 2, Len(bytes)))

\* ScanLines drops one trailing "\r" of a line
dropCR(line) ==
    IF line # <<>> /\ line[Len(line)] = "\r" THEN SubSeq(line, 1, Len(line) - 1) ELSE line

\* c.scanner.Scan() is true: there is a next line and it fits the buffer
ScanOK ==
    /\ scanErr = "nil"
    /\ pos < Len(lines)
    /\ ByteLen(lines[pos + 1]) < MaxFieldSize

\* c.scanner.Bytes()
lineBytes == dropCR(lines[pos + 1])

(***************************************************************************)
(* Reader                                                                  *)
(***************************************************************************)
NoReturn == [nil |-> TRUE, stanza |-> EmptyStanza, err |-> "none"]

\* mutant: the buffer is returned together with the error
ReadStanzaResult_Partial(buf, err) ==
    IF \A k \in DOMAIN buf : buf[k] = <<>>
    THEN [nil |-> TRUE, stanza |-> [k \in {} |-> <<>>], err |-> err]
    ELSE [nil |-> FALSE, stanza |-> buf, err |-> err]

\* ReadStanza after ReadBufferedStanza(buf) returned err
ReadStanzaResult(buf, err) ==
    IF err # "nil" THEN [nil |-> TRUE, stanza |-> EmptyStanza, err |-> err]
    ELSE IF ~Empty(buf) THEN [nil |-> FALSE, stanza |-> buf, err |-> "nil"]
    ELSE [nil |-> TRUE, stanza |-> EmptyStanza, err |-> "nil"]

\* mutant: installer mode is not looked at
lastFieldFinished_NoInstaller ==
    ~(lineBytes[1] = " " \/ lineBytes[1] = "\t")

lastFieldFinished ==
    ~(lineBytes[1] = " " \/ lineBytes[1] = "\t" \/ isInstaller)

splitIndex == IndexByte(lineBytes, ":")

Config == <<isRelease, isInstaller>>

Writer == <<phase, orig, fromReader, isSource, written, left, werr>>

\* ReadStanza: buf := make(Stanza, 32), and ReadBufferedStanza up to its loop
CallReadStanza ==
    /\ pc = "idle"
    /\ ncalls < MaxCalls
    /\ pc' = "scan"
    /\ ncalls' = ncalls + 1
    /\ start' = pos
    /\ stanza' = EmptyStanza
    /\ lastField' = <<>>
    /\ lastFieldMultiline' = isInstaller
    /\ lastValue' = <<>>
    /\ ev' = "call"
    /\ UNCHANGED <<Other, Config, lines, pos, scanErr, ret, Writer>>

\* Scan() is false because the next line does not fit the buffer
ScanTooLong ==
    /\ pc = "scan"
    /\ scanErr = "nil"
    /\ pos < Len(lines)
    /\ ByteLen(lines[pos + 1]) >= MaxFieldSize
    /\ scanErr' = "ErrTooLong"
    /\ ret' = ReadStanzaResult(stanza, "ErrTooLong")
    /\ pc' = "idle"
    /\ ev' = "toolong"
    /\ UNCHANGED <<Other, Config, lines, pos, stanza, lastField, lastFieldMultiline,
                   lastValue, ncalls, start, Writer>>

\* mutant: what was read when the stream ends is dropped
ScanEnd_Drop ==
    /\ pc = "scan"
    /\ scanErr # "nil" \/ pos = Len(lines)
    /\ ret' = [nil |-> TRUE, stanza |-> EmptyStanza, err |-> scanErr]
    /\ pc' = "idle"
    /\ ev' = "end"
    /\ UNCHANGED <<Other, Config, lines, pos, scanErr, stanza, lastField,
                   lastFieldMultiline, lastValue, ncalls, start, Writer>>

\* Scan() is false: end of stream, or an earlier error; return c.scanner.Err()
ScanEnd ==
    /\ pc = "scan"
    /\ scanErr # "nil" \/ pos = Len(lines)
    /\ ret' = ReadStanzaResult(stanza, scanErr)
    /\ pc' = "idle"
    /\ ev' = "end"
    /\ UNCHANGED <<Other, Config, lines, pos, scanErr, stanza, lastField,
                   lastFieldMultiline, lastValue, ncalls, start, Writer>>

\* an empty line: ends the stanza when it is not Empty, is skipped otherwise
ScanBlank ==
    /\ pc = "scan"
    /\ ScanOK
    /\ lineBytes = <<>>
    /\ pos' = pos + 1
    /\ IF ~Empty(stanza)
       THEN /\ ret' = ReadStanzaResult(stanza, "nil")
            /\ pc' = "idle"
       ELSE UNCHANGED <<ret, pc>>
    /\ ev' = "blank"
    /\ UNCHANGED <<Other, Config, lines, scanErr, stanza, lastField, lastFieldMultiline,
                   lastValue, ncalls, start, Writer>>

\* a line that starts a field and has no ':'
ScanMalformed ==
    /\ pc = "scan"
    /\ ScanOK
    /\ lineBytes # <<>>
    /\ lastFieldFinished
    /\ splitIndex = -1
    /\ pos' = pos + 1
    /\ lastValue' = <<>>
    /\ ret' = ReadStanzaResult(stanza, "ErrMalformedStanza")
    /\ pc' = "idle"
    /\ ev' = "malformed"
    /\ UNCHANGED <<Other, Config, lines, scanErr, stanza, lastField, lastFieldMultiline,
                   ncalls, start, Writer>>

\* mutant: the value of a repeated field is appended to, not replaced
ScanField_Append ==
    /\ pc = "scan"
    /\ ScanOK
    /\ lineBytes # <<>>
    /\ lastFieldFinished
    /\ splitIndex # -1
    /\ LET field == canonicalCase(SubSeq(lineBytes, 1, splitIndex))
           multiline == isMultilineField(field, isRelease)
           lastValueBytes == SubSeq(lineBytes, splitIndex + 2, Len(lineBytes))
           value == Get(stanza, field) \o
                    (IF multiline
                     THEN IF Len(lastValueBytes) > 0 THEN lastValueBytes \o <<"\n">> ELSE <<>>
                     ELSE TrimSpace(lastValueBytes))
       IN  /\ lastField' = field
           /\ lastFieldMultiline' = multiline
           /\ lastValue' = value
           /\ stanza' = Put(stanza, field, value)
    /\ pos' = pos + 1
    /\ ev' = "field"
    /\ UNCHANGED <<Other, Config, lines, scanErr, pc, ret, ncalls, start, Writer>>

\* a line "name:value" that starts a field
ScanField ==
    /\ pc = "scan"
    /\ ScanOK
    /\ lineBytes # <<>>
    /\ lastFieldFinished
    /\ splitIndex # -1
    /\ LET field == canonicalCase(SubSeq(lineBytes, 1, splitIndex))
           multiline == isMultilineField(field, isRelease)
           lastValueBytes == SubSeq(lineBytes, splitIndex + 2, Len(lineBytes))
           value == IF multiline
                    THEN IF Len(lastValueBytes) > 0 THEN lastValueBytes \o <<"\n">> ELSE <<>>
                    ELSE TrimSpace(lastValueBytes)
       IN  /\ lastField' = field
           /\ lastFieldMultiline' = multiline
           /\ lastValue' = value
           /\ stanza' = Put(stanza, field, value)
    /\ pos' = pos + 1
    /\ ev' = "field"
    /\ UNCHANGED <<Other, Config, lines, scanErr, pc, ret, ncalls, start, Writer>>

\* mutant: continuation lines are trimmed for multi-line fields too
ScanContinuation_Trim ==
    /\ pc = "scan"
    /\ ScanOK
    /\ lineBytes # <<>>
    /\ ~lastFieldFinished
    /\ LET value == IF lastFieldMultiline
                    THEN lastValue \o TrimSpace(lineBytes) \o <<"\n">>
                    ELSE lastValue \o <<" ">> \o TrimSpace(lineBytes)
       IN  /\ lastValue' = value
           /\ stanza' = Put(stanza, lastField, value)
    /\ pos' = pos + 1
    /\ ev' = "cont"
    /\ UNCHANGED <<Other, Config, lines, scanErr, pc, ret, lastField, lastFieldMultiline,
                   ncalls, start, Writer>>

\* a continuation line
ScanContinuation ==
    /\ pc = "scan"
    /\ ScanOK
    /\ lineBytes # <<>>
    /\ ~lastFieldFinished
    /\ LET value == IF lastFieldMultiline
                    THEN lastValue \o lineBytes \o <<"\n">>
                    ELSE lastValue \o <<" ">> \o TrimSpace(lineBytes)
       IN  /\ lastValue' = value
           /\ stanza' = Put(stanza, lastField, value)
    /\ pos' = pos + 1
    /\ ev' = "cont"
    /\ UNCHANGED <<Other, Config, lines, scanErr, pc, ret, lastField, lastFieldMultiline,
                   ncalls, start, Writer>>

\* s.WriteTo(w, source, isRelease, isInstaller), and a new reader on what was written
DoWrite(s, source, fr) ==
    LET w == WriteTo(Copy(s), source, isRelease, isInstaller)
    IN  /\ orig' = s
        /\ fromReader' = fr
        /\ isSource' = source
        /\ written' = w.written
        /\ left' = w.left
        /\ werr' = "nil"
        /\ phase' = "back"
        /\ lines' = SplitLines(Flatten(w.written))
        /\ pos' = 0
        /\ start' = 0
        /\ scanErr' = "nil"
        /\ pc' = "idle"
        /\ ncalls' = 0
        /\ ret' = NoReturn
        /\ stanza' = EmptyStanza
        /\ lastField' = <<>>
        /\ lastFieldMultiline' = FALSE
        /\ lastValue' = <<>>
        /\ ev' = "write"
        /\ UNCHANGED <<Other, Config>>

\* write a copy of the stanza ReadStanza just returned
WriteReturned ==
    /\ phase = "read"
    /\ pc = "idle"
    /\ ~ret.nil
    /\ \E source \in BOOLEAN : DoWrite(ret.stanza, source, TRUE)

\* write a stanza the caller has built
WriteBuilt ==
    /\ phase = "read"
    /\ pc = "idle"
    /\ ncalls = 0
    /\ \E s \in BuiltStanzas, source \in BOOLEAN : DoWrite(s, source, FALSE)

\* no field name is being canonicalized
CaseOff == cname = <<>> /\ canon1 = <<>> /\ canon2 = <<>> /\ casepc = "off"

\* no stanza is being operated on
StanzaOff == st = EmptyStanza /\ stOp = [op |-> "off", key |-> <<>>] /\ stKeys = {}

\* the sub-records of a Package that are loaded on first access
Records == {"extra", "deps", "files"}

\* no call has read the package
ReadOff ==
    /\ call = [fn |-> "none", arg |-> <<>>, out |-> <<>>]
    /\ loads = [r \in Records |-> 0]

\* no package is being built
PkgOff ==
    /\ input0 = EmptyStanza /\ input = EmptyStanza /\ pkg = EmptyStanza
    /\ pkgpc = "off" /\ pkgEv = "off" /\ result = EmptyStanza
    /\ parsed = EmptyStanza /\ alias = "none"
    /\ ReadOff

\* ImportPackageFiles is not being called
ImportOff ==
    /\ packageFiles = <<>> /\ forceReplace = FALSE /\ restricted = FALSE
    /\ packageList = {} /\ listBefore = {} /\ transaction = "none" /\ updated = {}
    /\ processedFiles = <<>> /\ failedFiles = <<>> /\ importErr = "nil"
    /\ outcomes = <<>> /\ importpc = "off"

\* a reader on the stream b
CodecInit(b) ==
    /\ isRelease \in BOOLEAN
    /\ isInstaller \in BOOLEAN
    /\ lines = SplitLines(b)
    /\ pos = 0
    /\ start = 0
    /\ scanErr = "nil"
    /\ pc = "idle"
    /\ stanza = EmptyStanza
    /\ lastField = <<>>
    /\ lastFieldMultiline = FALSE
    /\ lastValue = <<>>
    /\ ret = NoReturn
    /\ ncalls = 0
    /\ ev = "init"
    /\ phase = "read"
    /\ orig = EmptyStanza
    /\ fromReader = FALSE
    /\ isSource = FALSE
    /\ written = <<>>
    /\ left = EmptyStanza
    /\ werr = "nil"

\* no reader and no writer
CodecOff ==
    /\ CodecInit(<<>>)
    /\ ~isRelease
    /\ ~isInstaller

Init ==
    /\ ImportOff
    /\ \E b \in Inputs : CodecInit(b)
    /\ CaseOff
    /\ StanzaOff
    /\ PkgOff

Next ==
    \/ CallReadStanza
    \/ ScanTooLong
    \/ ScanEnd
    \/ ScanBlank
    \/ ScanMalformed
    \/ ScanField
    \/ ScanContinuation
    \/ WriteReturned
    \/ WriteBuilt

Spec == Init /\ [][Next]_vars

(***************************************************************************)
(* Properties                                                              *)
(***************************************************************************)
\* the line the reader consumed last, as Bytes() delivered it
lastLine == dropCR(lines[pos])

\* the last step of the reader consumed a line
ConsumedLine == ev \in {"blank", "malformed", "field", "cont"}

\* ReadStanza has just returned for the n-th time on the current reader
Returned(n) == pc = "idle" /\ ncalls = n

HasValue(s) == \E k \in DOMAIN s : s[k] # <<>>

\* C1: a stanza the reader returned, written by WriteTo and read back with the
\* same isRelease/isInstaller flags, comes back with the same value for every
\* field name.
C1_RoundTrip ==
    (phase = "back" /\ fromReader /\ Returned(1))
        => /\ ~ret.nil
           /\ \A k \in DOMAIN orig \cup DOMAIN ret.stanza :
                  Get(ret.stanza, k) = Get(orig, k)

\* position of x in list, 0 when it is not in it
IndexIn(list, x) ==
    IF InList(list, x) THEN CHOOSE i \in 1..Len(list) : list[i] = x ELSE 0

\* C2: WriteTo writes every field once: those of the selected canonical list
\* first, in the order of the list, then (not in installer format) all the
\* others in strictly ascending order of name; {Package: foo, ZZZ: 1} in
\* binary order gives "Package: foo\n" then "ZZZ: 1\n".
C2_WriteOrder ==
    phase = "back" =>
        LET order == canonicalOrder(isSource, isRelease, isInstaller)
            name(i) == written[i].field
            n == Len(written)
        IN  /\ \A i, j \in 1..n : i < j =>
                  /\ name(i) # name(j)
                  /\ IndexIn(order, name(j)) # 0 =>
                        /\ IndexIn(order, name(i)) # 0
                        /\ IndexIn(order, name(i)) < IndexIn(order, name(j))
                  /\ (IndexIn(order, name(i)) = 0 /\ IndexIn(order, name(j)) = 0) =>
                        StrLess(name(i), name(j))
            /\ {name(i) : i \in 1..n} =
                  IF isInstaller THEN DOMAIN orig \cap {<<>>} ELSE DOMAIN orig
            /\ (/\ DOMAIN orig = {<<"P","a","c","k","a","g","e">>, <<"Z","Z","Z">>}
                /\ orig[<<"P","a","c","k","a","g","e">>] = <<"f","o","o">> /\ orig[<<"Z","Z","Z">>] = <<"1">>
                /\ ~isSource /\ ~isRelease /\ ~isInstaller)
                  => written = << [field |-> <<"P","a","c","k","a","g","e">>, text |-> <<"P","a","c","k","a","g","e",":"," ","f","o","o","\n">>],
                                  [field |-> <<"Z","Z","Z">>, text |-> <<"Z","Z","Z",":"," ","1","\n">>] >>

\* C2 witness: a write in binary order of two canonical fields and three others
C2_Witness ==
    /\ ev = "write" /\ ~isSource /\ ~isRelease /\ ~isInstaller
    /\ Len(written) = 5
    /\ written[1].field = <<"M","D","5","S","u","m">> /\ written[2].field = <<"M","D","5","s","u","m">>
    /\ written[3].field = <<"F","i","l","e","s">> /\ written[5].field = <<"a","b","c">>

\* a non-blank line that does not start with space or tab and has no ':'
NoColonLine(l) ==
    /\ l # <<>>
    /\ l[1] \notin {" ", "\t"}
    /\ \A i \in 1..Len(l) : l[i] # ":"

\* C3: not in installer mode, a non-blank line that does not start with space
\* or tab and has no ':' makes ReadStanza return ErrMalformedStanza and a nil
\* stanza, as first line of the paragraph or after fields.
C3_Malformed ==
    (~isInstaller /\ ConsumedLine /\ NoColonLine(lastLine))
        => /\ pc = "idle"
           /\ ret.nil
           /\ ret.err = "ErrMalformedStanza"

\* C3 witness: the line without ':' came after a field with a value
C3_Witness ==
    /\ ~isInstaller /\ ConsumedLine /\ NoColonLine(lastLine)
    /\ HasValue(stanza)
    /\ ret.err = "ErrMalformedStanza"

\* the i-th line of the stream, as Bytes() delivers it
Line(i) == dropCR(lines[i])

IsContLine(l) == l # <<>> /\ (l[1] \in {" ", "\t"} \/ isInstaller)

IsFieldLine(l) == l # <<>> /\ l[1] \notin {" ", "\t"} /\ ~isInstaller

\* the lines of the current call that are no continuation lines
HeadLines == {i \in (start + 1)..pos : IsFieldLine(Line(i))}

\* those of them that have a ':', the field lines
FieldLines == {i \in HeadLines : \E n \in 1..Len(Line(i)) : Line(i)[n] = ":"}

\* the canonical name of the field line l
FieldName(l) ==
    canonicalCase(SubSeq(l, 1, (CHOOSE n \in 1..Len(l) :
                                   l[n] = ":" /\ \A m \in 1..(n - 1) : l[m] # ":") - 1))

\* the text of the field line l after its first ':'
AfterColon(l) ==
    SubSeq(l, 1 + (CHOOSE n \in 1..Len(l) : l[n] = ":" /\ \A m \in 1..(n - 1) : l[m] # ":"),
           Len(l))

Max(S) == CHOOSE x \in S : \A y \in S : y <= x

\* C4: a continuation line is appended to the value of the most recent field:
\* the raw line and "\n" for a multi-line field, one space and the trimmed
\* line for a single-line field.
C4_Continuation ==
    [][ (pc = "scan" /\ ScanOK /\ IsContLine(lineBytes) /\ (isInstaller \/ FieldLines # {}))
          => LET f == IF isInstaller THEN <<>> ELSE FieldName(Line(Max(FieldLines)))
                 old == Get(stanza, f)
             IN  stanza' = Put(stanza, f,
                               IF isMultilineField(f, isRelease)
                               THEN old \o lineBytes \o <<"\n">>
                               ELSE old \o <<" ">> \o TrimSpace(lineBytes)) ]_vars

\* C4 witness: a line with inner and outer blanks was appended to a single-line
\* field that had a value
C4_Witness ==
    /\ ev = "cont" /\ ~isInstaller
    /\ lastLine = <<"\t","b">>
    /\ <<"D","e","p","e","n","d","s">> \in DOMAIN stanza
    /\ stanza[<<"D","e","p","e","n","d","s">>] = <<"a",","," ","b">>

ScenarioDescription == <<"D","e","s","c","r","i","p","t","i","o","n",":"," ","s","h","o","r","t","\n"," ","m","o","r","e","\n"," ",".","\n"," ","s","t","i","l","l"," ","m","o","r","e","\n","\n">>

\* C5 as claimed: the lines "Description: short", " more", " .", " still more"
\* and a blank line give one stanza with Description "short\n more\n.\nstill more\n".
C5_Claimed ==
    (/\ phase = "read" /\ ~isRelease /\ ~isInstaller
     /\ lines = SplitLines(ScenarioDescription) /\ Returned(1))
        => /\ ~ret.nil
           /\ DOMAIN ret.stanza = {<<"D","e","s","c","r","i","p","t","i","o","n">>}
           /\ ret.stanza[<<"D","e","s","c","r","i","p","t","i","o","n">>] = <<"s","h","o","r","t","\n"," ","m","o","r","e","\n",".","\n","s","t","i","l","l"," ","m","o","r","e","\n">>

\* C5 amended: these lines give exactly one stanza, whose Description is
\* " short\n more\n .\n still more\n": the text after the colon and every
\* continuation line are kept as they are, each followed by "\n".
C5_Description ==
    (/\ phase = "read" /\ ~isRelease /\ ~isInstaller
     /\ lines = SplitLines(ScenarioDescription))
        => /\ Returned(1) =>
                /\ ~ret.nil
                /\ DOMAIN ret.stanza = {<<"D","e","s","c","r","i","p","t","i","o","n">>}
                /\ ret.stanza[<<"D","e","s","c","r","i","p","t","i","o","n">>] = <<" ","s","h","o","r","t","\n"," ","m","o","r","e","\n"," ",".","\n"," ","s","t","i","l","l"," ","m","o","r","e","\n">>
           /\ (ncalls > 1 /\ pc = "idle") => (ret.nil /\ ret.err = "nil")

C5_Witness ==
    /\ phase = "read" /\ ~isRelease /\ ~isInstaller
    /\ lines = SplitLines(ScenarioDescription)
    /\ Returned(2)
    /\ ret.nil

\* C6: ReadStanza never returns a stanza without a non-empty value: blank lines
\* before content are skipped, a blank line ends the stanza only when it holds
\* a non-empty value.
C6_NeverEmpty ==
    /\ ~ret.nil => HasValue(ret.stanza)
    /\ ev = "blank" =>
          /\ pc = "idle" <=> HasValue(stanza)
          /\ pc = "idle" => ret = [nil |-> FALSE, stanza |-> stanza, err |-> "nil"]

\* C6 witness: a blank line, a field, and the blank line that ends the stanza
C6_Witness ==
    /\ ev = "blank" /\ pc = "idle" /\ ~ret.nil
    /\ start = 0 /\ pos = 3 /\ Line(1) = <<>>

\* C7: a last paragraph without a blank line after it is returned at the end of
\* the stream, and once ReadStanza returned (nil, nil) it returns (nil, nil) ever after.
C7_EndOfStream ==
    /\ []((ev = "end" /\ scanErr = "nil" /\ HasValue(stanza))
            => ret = [nil |-> FALSE, stanza |-> stanza, err |-> "nil"])
    /\ [][(ret.nil /\ ret.err = "nil") => ret' = ret]_vars

\* C7 witness: one line; the first call returned it, the second and the third
\* returned (nil, nil)
C7_Witness ==
    /\ phase = "read" /\ lines = << <<"P","a","c","k","a","g","e",":"," ","f">> >>
    /\ Returned(3)
    /\ ret.nil /\ ret.err = "nil"

\* all non-blank lines i..j, each followed by "\n"
RECURSIVE Verbatim(_, _)
Verbatim(i, j) ==
    IF i > j THEN <<>>
    ELSE (IF Line(i) = <<>> THEN <<>> ELSE Line(i) \o <<"\n">>) \o Verbatim(i + 1, j)

ScenarioInstaller == <<"\n","a","b","c","1","2","3"," "," ","f","i","l","e","1",".","d","e","b","\n","d","e","f","4","5","6"," "," ","f","i","l","e","2",".","d","e","b","\n","\n">>

\* C8: in installer mode every non-blank line of a paragraph goes, as it is and
\* followed by "\n", to the unnamed field; there is no other key and no
\* ErrMalformedStanza.
C8_Installer ==
    isInstaller =>
        /\ DOMAIN stanza \subseteq {<<>>}
        /\ Get(stanza, <<>>) = Verbatim(start + 1, pos)
        /\ ~ret.nil => DOMAIN ret.stanza = {<<>>}
        /\ ret.err # "ErrMalformedStanza"
        /\ (phase = "read" /\ lines = SplitLines(ScenarioInstaller) /\ Returned(1))
              => /\ ~ret.nil
                 /\ ret.stanza[<<>>] = <<"a","b","c","1","2","3"," "," ","f","i","l","e","1",".","d","e","b","\n","d","e","f","4","5","6"," "," ","f","i","l","e","2",".","d","e","b","\n">>

C8_Witness ==
    /\ isInstaller /\ phase = "read"
    /\ lines = SplitLines(ScenarioInstaller)
    /\ Returned(1) /\ ~ret.nil

\* C9: no field of a returned stanza is larger than MaxFieldSize: the read
\* fails when a value with its continuation lines would exceed it.
C9_FieldCap ==
    ~ret.nil => \A k \in DOMAIN ret.stanza : ByteLen(ret.stanza[k]) <= MaxFieldSize

\* what continuation lines i..j add to a field
RECURSIVE Continued(_, _, _)
Continued(i, j, multiline) ==
    IF i > j THEN <<>>
    ELSE (IF Line(i) = <<>> THEN <<>>
          ELSE IF multiline THEN Line(i) \o <<"\n">>
          ELSE <<" ">> \o TrimSpace(Line(i)))
         \o Continued(i + 1, j, multiline)

\* the value of the field that line i starts, with its continuation lines
OccurrenceValue(i) ==
    LET multiline == isMultilineField(FieldName(Line(i)), isRelease)
        later == {j \in HeadLines : j > i}
        end == IF later = {} THEN pos ELSE (CHOOSE j \in later : \A m \in later : j <= m) - 1
        first == IF multiline
                 THEN IF AfterColon(Line(i)) = <<>> THEN <<>> ELSE AfterColon(Line(i)) \o <<"\n">>
                 ELSE TrimSpace(AfterColon(Line(i)))
    IN  first \o Continued(i + 1, end, multiline)

\* C10: when a canonical field name occurs more than once as a field line in a
\* paragraph, the stanza holds the value of the last occurrence with its own
\* continuation lines, and nothing of the earlier ones.
C10_LastWins ==
    \A i \in FieldLines :
        (/\ \E j \in FieldLines : j < i /\ FieldName(Line(j)) = FieldName(Line(i))
         /\ \A j \in FieldLines : j > i => FieldName(Line(j)) # FieldName(Line(i)))
            => Get(stanza, FieldName(Line(i))) = OccurrenceValue(i)

\* C10 witness: the last occurrence has an empty value, an earlier one had a
\* value and a continuation line
C10_Witness ==
    /\ ~isInstaller /\ pos = 3 /\ start = 0
    /\ Line(1) = <<"F","i","l","e","s",":"," ","1">> /\ Line(2) = <<" ","2">> /\ Line(3) = <<"F","i","l","e","s",":">>
    /\ stanza[<<"F","i","l","e","s">>] = <<>>

(***************************************************************************)
(* canonicalCase on its own                                                *)
(***************************************************************************)
MaxNameLen == 3

\* the characters the short field names are made of
NameChars == {"a", "B", "-"}

\* every name of n characters
RECURSIVE NamesOfLen(_)
NamesOfLen(n) ==
    IF n = 0 THEN {<<>>}
    ELSE {<<c>> \o w : c \in NameChars, w \in NamesOfLen(n - 1)}

\* the names of the canonical lists
ListNames ==
    {canonicalOrderRelease[i] : i \in 1..Len(canonicalOrderRelease)}
        \cup {canonicalOrderBinary[i] : i \in 1..Len(canonicalOrderBinary)}
        \cup {canonicalOrderSource[i] : i \in 1..Len(canonicalOrderSource)}

StringsToLower(s) == [i \in 1..Len(s) |-> ToLower(s[i])]

\* the field names canonicalCase is given: the short ones, the listed ones
\* in their own, in upper and in lower case, and other spellings
Names ==
    UNION {NamesOfLen(n) : n \in 0..MaxNameLen}
        \cup ListNames
        \cup {StringsToUpper(n) : n \in ListNames}
        \cup {StringsToLower(n) : n \in ListNames}
        \cup { <<"M","d","5","S","u","m">>, <<"m","D","5","s","U","M">>, <<"S","h","a","1">>, <<"s","H","A","2","5","6">>, <<"S","h","a","5","1","2">>, <<"n","o","t","A","u","t","o","m","a","t","i","c">>,
               <<"B","u","t","a","u","t","o","m","a","t","i","c","u","p","g","r","a","d","e","s">>, <<"m","a","i","n","t","a","i","n","e","r">>, <<"p","r","e","-","d","e","p","e","n","d","s">>, <<"x","-","-","y">>, <<"-","p","r","e">>,
               <<"X","-","C","u","s","t","o","m","-","F","I","E","L","D">>, <<"c","h","e","c","k","s","u","m","s","-","s","h","a","1">>, <<"a","1","-","b","2">>, <<"Z","z">> }

\* canonicalCase(cname)
CallCanonicalCase ==
    /\ casepc = "name"
    /\ canon1' = canonicalCase(cname)
    /\ casepc' = "once"
    /\ UNCHANGED <<cname, canon2, codecVars, importVars, stanzaVars, pkgVars>>

\* canonicalCase(canonicalCase(cname))
CallCanonicalCaseAgain ==
    /\ casepc = "once"
    /\ canon2' = canonicalCase(canon1)
    /\ casepc' = "twice"
    /\ UNCHANGED <<cname, canon1, codecVars, importVars, stanzaVars, pkgVars>>

InitCase ==
    /\ ImportOff
    /\ CodecOff
    /\ StanzaOff
    /\ PkgOff
    /\ cname \in Names
    /\ canon1 = <<>>
    /\ canon2 = <<>>
    /\ casepc = "name"

NextCase ==
    \/ CallCanonicalCase
    \/ CallCanonicalCaseAgain

SpecCase == InitCase /\ [][NextCase]_vars

\* C13: canonicalCase is idempotent: applied to its own result it returns
\* that result, for every field name (listed names, irregular spellings in
\* any case, the empty name, leading and consecutive hyphens).
C13_Idempotent == casepc = "twice" => canon2 = canon1

\* names of each kind the claim lists have been canonicalized twice
C13_Witness ==
    /\ casepc = "twice"
    /\ canon2 = canon1
    /\ cname \in {<<>>, <<"-","a">>, <<"a","-","-">>, <<"m","d","5","s","u","m">>, <<"M","D","5","s","u","m">>, <<"N","O","T","A","U","T","O","M","A","T","I","C">>, <<"I","n","s","t","a","l","l","e","d","-","S","i","z","e">>}
    /\ (cname = <<"m","d","5","s","u","m">> => canon1 = <<"M","D","5","S","u","m">>)

\* the irregular-spelling table is keyed by the upper-cased name
InTable(name) ==
    StringsToUpper(name) \in { <<"S","H","A","1">>, <<"S","H","A","2","5","6">>, <<"S","H","A","5","1","2">>, <<"M","D","5","S","U","M">>,
                               <<"N","O","T","A","U","T","O","M","A","T","I","C">>, <<"B","U","T","A","U","T","O","M","A","T","I","C","U","P","G","R","A","D","E","S">> }

\* the names that differ from name in letter case only
Variants(name) == {v \in Names : StringsToUpper(v) = StringsToUpper(name)}

\* C14 as stated: any two names that differ only in letter case are
\* canonicalized to the same name.
C14_Claimed ==
    casepc = "once" => \A v \in Variants(cname) : canonicalCase(v) = canon1

\* C14: two names that differ only in letter case are canonicalized to the
\* same name unless exactly one of them is spelled MD5sum: MD5sum is kept
\* as it is, every other spelling of it becomes MD5Sum.
C14_SameName ==
    casepc = "once" =>
        /\ \A v \in Variants(cname) :
               (v = <<"M","D","5","s","u","m">>) = (cname = <<"M","D","5","s","u","m">>) => canonicalCase(v) = canon1
        /\ cname = <<"M","D","5","s","u","m">> => canon1 = <<"M","D","5","s","u","m">>
        /\ (cname # <<"M","D","5","s","u","m">> /\ StringsToUpper(cname) = <<"M","D","5","S","U","M">>) => canon1 = <<"M","D","5","S","u","m">>

\* a name with several spellings in the pool has been canonicalized
C14_Witness ==
    /\ casepc = "once"
    /\ cname \in { <<"m","d","5","s","u","m">>, <<"s","h","a","2","5","6">>, <<"P","R","E","-","D","E","P","E","N","D","S">>, <<"a","B","-">> }
    /\ \E v \in Variants(cname) : v # cname /\ canonicalCase(v) = canon1

\* the name with the first letter of every hyphen-delimited segment in
\* upper case and every other letter in lower case
TitleCase(name) ==
    [i \in 1..Len(name) |->
        IF i = 1 \/ name[i - 1] = "-" THEN ToUpper(name[i]) ELSE ToLower(name[i])]

\* C15: a name in no canonical list and not in the irregular-spelling table
\* is returned with the first letter of every hyphen-delimited segment in
\* upper case and the other letters in lower case, leading and consecutive
\* hyphens included.
C15_TitleCase ==
    (casepc = "once" /\ cname \notin ListNames /\ ~InTable(cname)) =>
        canon1 = TitleCase(cname)

(***************************************************************************)
(* ReadBufferedStanza with a nil stanza                                    *)
(***************************************************************************)
\* a nil call that scans a line before it returns
CallReadBufferedStanzaNil_Scan ==
    /\ pc = "idle"
    /\ ncalls < MaxCalls
    /\ ncalls' = ncalls + 1
    /\ start' = pos
    /\ pos' = IF pos < Len(lines) /\ scanErr = "nil" THEN pos + 1 ELSE pos
    /\ ret' = [nil |-> TRUE, stanza |-> EmptyStanza, err |-> "ErrInvalidArgument"]
    /\ ev' = "nilcall"
    /\ UNCHANGED <<Other, Config, lines, scanErr, pc, stanza, lastField,
                   lastFieldMultiline, lastValue, Writer>>

\* ReadBufferedStanza(nil): returns before the scanner is used
CallReadBufferedStanzaNil ==
    /\ pc = "idle"
    /\ ncalls < MaxCalls
    /\ ncalls' = ncalls + 1
    /\ start' = pos
    /\ ret' = [nil |-> TRUE, stanza |-> EmptyStanza, err |-> "ErrInvalidArgument"]
    /\ ev' = "nilcall"
    /\ UNCHANGED <<Other, Config, lines, pos, scanErr, pc, stanza, lastField,
                   lastFieldMultiline, lastValue, Writer>>

\* the streams of the documented scenarios and the short streams of the pool
NilInputs ==
    {JoinLines(ls) : ls \in UNION {[1..n -> LinePool] : n \in 0..(MaxLines - 1)}}
        \cup Scenarios

InitNil ==
    /\ ImportOff
    /\ \E b \in NilInputs : CodecInit(b)
    /\ CaseOff
    /\ StanzaOff
    /\ PkgOff

NextNil ==
    \/ Next
    \/ CallReadBufferedStanzaNil

SpecNil == InitNil /\ [][NextNil]_vars

\* what decides the result of every later read: the stream, the scanner's
\* position in it and the scanner's error
ScannerState == <<lines, pos, scanErr, isRelease, isInstaller>>

\* C11: ReadBufferedStanza(nil) returns ErrInvalidArgument and consumes no
\* input: the scanner is where it was, so the next read returns what it
\* would have returned without the nil call.
C11_NilStanza ==
    [][(ev' = "nilcall") =>
          /\ ret'.err = "ErrInvalidArgument"
          /\ ScannerState' = ScannerState]_vars

\* a read that follows a nil call on a stream with input left returned the
\* stanza that starts where the nil call found the scanner
C11_Witness ==
    /\ ev = "blank"
    /\ pc = "idle"
    /\ ncalls = 2
    /\ start = 0
    /\ phase = "read"
    /\ ~ret.nil
    /\ ret.err = "nil"
    /\ Get(ret.stanza, <<"P","a","c","k","a","g","e">>) = <<"f">>

\* the line the previous call stopped at made that call fail with
\* ErrMalformedStanza
PreviousMalformed ==
    /\ ~isInstaller
    /\ ncalls >= 2
    /\ start >= 1
    /\ NoColonLine(Line(start))

\* C12: after ErrMalformedStanza the failure covers the whole paragraph: the
\* stanza the next ReadStanza returns is built only from lines that follow
\* the blank line ending the failed paragraph, never from the failed
\* paragraph's remaining lines.
C12_WholeParagraph ==
    (pc = "idle" /\ PreviousMalformed /\ ~ret.nil) =>
        \A i \in (start + 1)..pos :
            Line(i) # <<>> => \E b \in (start + 1)..(i - 1) : Line(b) = <<>>

(***************************************************************************)
(* A Stanza under Set, Reset and Clear                                     *)
(***************************************************************************)
\* s[key] = value, Stanza.Set(key, value)
Set(s, key, value) == Put(s, key, value)

\* Stanza.Reset of the map of strings: the key is created when absent
Reset(s, key) == Put(s, key, <<>>)

\* Stanza.Reset of the map of builders: nothing happens when the key is absent
ResetBuilder(s, key) == IF key \in DOMAIN s THEN Put(s, key, <<>>) ELSE s

\* a Clear that removes the keys
Clear_Delete(s) == EmptyStanza

\* Stanza.Clear
Clear(s) == [k \in DOMAIN s |-> <<>>]

\* the keys and values the operations are called with
StanzaKeys == { <<"P","a","c","k","a","g","e">>, <<"S","i","z","e">>, <<>> }

StanzaValues == { <<>>, <<"f">>, <<" ">>, <<"a","\n","b">> }

StanzaSet ==
    /\ stOp.op # "off"
    /\ \E k \in StanzaKeys, v \in StanzaValues :
        /\ st' = Set(st, k, v)
        /\ stOp' = [op |-> "Set", key |-> k]
    /\ stKeys' = DOMAIN st
    /\ UNCHANGED <<codecVars, importVars, caseVars, pkgVars>>

StanzaReset ==
    /\ stOp.op # "off"
    /\ \E k \in StanzaKeys :
        /\ st' = Reset(st, k)
        /\ stOp' = [op |-> "Reset", key |-> k]
    /\ stKeys' = DOMAIN st
    /\ UNCHANGED <<codecVars, importVars, caseVars, pkgVars>>

StanzaResetBuilder ==
    /\ stOp.op # "off"
    /\ \E k \in StanzaKeys :
        /\ st' = ResetBuilder(st, k)
        /\ stOp' = [op |-> "ResetBuilder", key |-> k]
    /\ stKeys' = DOMAIN st
    /\ UNCHANGED <<codecVars, importVars, caseVars, pkgVars>>

StanzaClear ==
    /\ stOp.op # "off"
    /\ st' = Clear(st)
    /\ stOp' = [op |-> "Clear", key |-> <<>>]
    /\ stKeys' = DOMAIN st
    /\ UNCHANGED <<codecVars, importVars, caseVars, pkgVars>>

InitStanza ==
    /\ ImportOff
    /\ CodecOff
    /\ CaseOff
    /\ PkgOff
    /\ st = EmptyStanza
    /\ stOp = [op |-> "make", key |-> <<>>]
    /\ stKeys = {}

NextStanza ==
    \/ StanzaSet
    \/ StanzaReset
    \/ StanzaResetBuilder
    \/ StanzaClear

SpecStanza == InitStanza /\ [][NextStanza]_vars

\* C16: after any sequence of Set, Reset and Clear, Empty() is true exactly
\* when every key in the stanza has a zero-length value; a stanza whose only
\* key was Reset is empty, and so is any stanza right after Clear(), with
\* its keys still present.
C16_ValueBased ==
    stOp.op # "off" =>
        /\ Empty(st) <=> (\A k \in DOMAIN st : ByteLen(st[k]) = 0)
        /\ (stOp.op \in {"Reset", "ResetBuilder"} /\ DOMAIN st = {stOp.key}) => Empty(st)
        /\ stOp.op = "Clear" => (Empty(st) /\ DOMAIN st = stKeys)

\* Clear() was called on a stanza with keys, and they are all still there
C16_Witness ==
    /\ stOp.op = "Clear"
    /\ Cardinality(DOMAIN st) = 2
    /\ stKeys = DOMAIN st
    /\ Empty(st)

(***************************************************************************)
(* Packages built from stanzas                                             *)
(***************************************************************************)
\* a Split that does not split
Split_Whole(s, sep) == <<s>>

\* strings.Split(s, sep) for a one-byte separator
RECURSIVE Split(_, _)
Split(s, sep) ==
    LET i == IndexByte(s, sep)
    IN  IF i = -1 THEN <<s>>
        ELSE <<SubSeq(s, 1, i)>> \o Split(SubSeq(s, i + 2, Len(s)), sep)

\* strings.Join(list, sep)
RECURSIVE Join(_, _)
Join(list, sep) ==
    IF list = <<>> THEN <<>>
    ELSE IF Len(list) = 1 THEN list[1]
    ELSE list[1] \o sep \o Join(Tail(list), sep)

\* strings.LastIndex(s, c) for a one-byte c: 0-based, -1 when absent
LastIndexByte(s, c) ==
    IF \E i \in 1..Len(s) : s[i] = c
    THEN (CHOOSE i \in 1..Len(s) : s[i] = c /\ \A j \in (i + 1)..Len(s) : s[j] # c) - 1
    ELSE -1

\* a []string: the nil slice, or a slice with its items
NilList == [nil |-> TRUE, items |-> <<>>]

List(items) == [nil |-> FALSE, items |-> items]

\* strings.Join over a slice that may be nil
JoinList(l, sep) == Join(l.items, sep)

\* parseDependencies without the trimming of the items
parseDependencies_NoTrim(in, key) ==
    LET value == Get(in, key)
    IN  IF value = <<>> THEN [list |-> NilList, input |-> in]
        ELSE IF TrimSpace(value) = <<>>
        THEN [list |-> NilList, input |-> ResetBuilder(in, key)]
        ELSE [list |-> List(Split(TrimSpace(value), ",")), input |-> ResetBuilder(in, key)]

\* parseDependencies(input, key): the list returned, and input as it is left
parseDependencies(in, key) ==
    LET value == Get(in, key)
    IN  IF value = <<>> THEN [list |-> NilList, input |-> in]
        ELSE IF TrimSpace(value) = <<>>
        THEN [list |-> NilList, input |-> ResetBuilder(in, key)]
        ELSE LET split == Split(TrimSpace(value), ",")
             IN  [list |-> List([i \in 1..Len(split) |-> TrimSpace(split[i])]),
                  input |-> ResetBuilder(in, key)]

\* the decimal digits
Digits == <<"0", "1", "2", "3", "4", "5", "6", "7", "8", "9">>

IsDigit(c) == \E d \in 1..10 : Digits[d] = c

\* the value of a string of digits
RECURSIVE Atoi(_)
Atoi(s) ==
    IF s = <<>> THEN 0
    ELSE 10 * Atoi(SubSeq(s, 1, Len(s) - 1))
            + ((CHOOSE d \in 1..10 : Digits[d] = s[Len(s)]) - 1)

\* strconv.ParseInt(s, 10, 64) with the error dropped: 0 on a syntax error
\* (the sizes given fit 64 bits, so no range error)
ParseInt(s) ==
    LET signed == s # <<>> /\ s[1] \in {"+", "-"}
        digits == IF signed THEN Tail(s) ELSE s
    IN  IF digits = <<>> \/ \E i \in 1..Len(digits) : ~IsDigit(digits[i]) THEN 0
        ELSE IF signed /\ s[1] = "-" THEN 0 - Atoi(digits)
        ELSE Atoi(digits)

\* fmt.Sprintf("%d", n)
RECURSIVE Itoa(_)
Itoa(n) ==
    IF n < 0 THEN <<"-">> \o Itoa(0 - n)
    ELSE IF n < 10 THEN <<Digits[n + 1]>>
    ELSE Itoa(n \div 10) \o <<Digits[(n % 10) + 1]>>

\* filepath.Base for paths with no empty, "." or ".." element
Base(path) ==
    IF path = <<>> THEN <<".">>
    ELSE SubSeq(path, LastIndexByte(path, "/") + 2, Len(path))

\* filepath.Dir for paths with no empty, "." or ".." element
Dir(path) ==
    IF LastIndexByte(path, "/") = -1 THEN <<".">>
    ELSE SubSeq(path, 1, LastIndexByte(path, "/"))

\* PackageFile.DownloadURL: the download path joined with the file name
DownloadURL(f) ==
    IF f.downloadPath \in {<<>>, <<".">>} THEN f.Filename
    ELSE f.downloadPath \o <<"/">> \o f.Filename

\* the values PackageFiles.Hash is taken to return
HashValues == { <<"1","f">>, <<"1","2","3","4","5","6","7","8","9","a","b","c","d","e","f","0">> }

\* Stanza.Reset of the map of builders, key after key
RECURSIVE ResetAll(_, _)
ResetAll(s, keys) ==
    IF keys = <<>> THEN s ELSE ResetAll(ResetBuilder(s, Head(keys)), Tail(keys))

\* NewPackageFromControlFile(input): the package, and input as it is left;
\* hash is what files.Hash() returns
NewPackageFromControlFile(in, hash) ==
    LET md5 == IF Get(in, <<"M","D","5","s","u","m">>) = <<>> THEN Get(in, <<"M","D","5","S","u","m">>) ELSE Get(in, <<"M","D","5","s","u","m">>)
        files == << [Filename |-> Base(Get(in, <<"F","i","l","e","n","a","m","e">>)),
                     downloadPath |-> Dir(Get(in, <<"F","i","l","e","n","a","m","e">>)),
                     Checksums |-> [Size |-> ParseInt(Get(in, <<"S","i","z","e">>)),
                                    MD5 |-> TrimSpace(md5),
                                    SHA1 |-> TrimSpace(Get(in, <<"S","H","A","1">>)),
                                    SHA256 |-> TrimSpace(Get(in, <<"S","H","A","2","5","6">>)),
                                    SHA512 |-> TrimSpace(Get(in, <<"S","H","A","5","1","2">>))]] >>
        in1 == ResetAll(in, << <<"F","i","l","e","n","a","m","e">>, <<"M","D","5","s","u","m">>, <<"M","D","5","S","u","m">>, <<"S","H","A","1">>, <<"S","H","A","2","5","6">>,
                               <<"S","H","A","5","1","2">>, <<"S","i","z","e">> >>)
        depends == parseDependencies(in1, <<"D","e","p","e","n","d","s">>)
        preDepends == parseDependencies(depends.input, <<"P","r","e","-","D","e","p","e","n","d","s">>)
        suggests == parseDependencies(preDepends.input, <<"S","u","g","g","e","s","t","s">>)
        recommends == parseDependencies(suggests.input, <<"R","e","c","o","m","m","e","n","d","s">>)
        provides == parseDependencies(recommends.input, <<"P","r","o","v","i","d","e","s">>)
    IN  [pkg |-> [Name |-> Get(in, <<"P","a","c","k","a","g","e">>),
                  Version |-> Get(in, <<"V","e","r","s","i","o","n">>),
                  Architecture |-> Get(in, <<"A","r","c","h","i","t","e","c","t","u","r","e">>),
                  SourceArchitecture |-> <<>>,
                  Source |-> Get(in, <<"S","o","u","r","c","e">>),
                  Provides |-> provides.list,
                  FilesHash |-> hash,
                  IsInstaller |-> FALSE,
                  IsSource |-> FALSE,
                  IsUdeb |-> FALSE,
                  V06Plus |-> TRUE,
                  deps |-> [Depends |-> depends.list,
                            PreDepends |-> preDepends.list,
                            Suggests |-> suggests.list,
                            Recommends |-> recommends.list,
                            BuildDepends |-> NilList,
                            BuildDependsInDep |-> NilList],
                  extra |-> Copy(provides.input),
                  files |-> files,
                  nil |-> {},
                  collection |-> FALSE],
         input |-> provides.input]

\* NewUdebPackageFromControlFile(input)
NewUdebPackageFromControlFile(in, hash) ==
    LET r == NewPackageFromControlFile(in, hash)
    IN  [pkg |-> [r.pkg EXCEPT !.IsUdeb = TRUE], input |-> r.input]

\* Package.UpdateFiles(files)
UpdateFiles(p, files, hash) ==
    [p EXCEPT !.files = files, !.FilesHash = hash, !.nil = @ \ {"files"}]

\* the text before the first "(" of source, trimmed
BeforeParen(source) == TrimSpace(SubSeq(source, 1, IndexByte(source, "(")))

\* Package.GetField(name)
GetField(p, name) ==
    IF name = <<"$","S","o","u","r","c","e">>
    THEN IF p.IsSource THEN <<>>
         ELSE IF p.Source = <<>> THEN p.Name
         ELSE IF IndexByte(p.Source, "(") # -1 THEN BeforeParen(p.Source)
         ELSE p.Source
    ELSE IF name = <<"$","S","o","u","r","c","e","V","e","r","s","i","o","n">>
    THEN IF p.IsSource THEN <<>>
         ELSE LET pos1 == IndexByte(p.Source, "(")
                  pos2 == LastIndexByte(p.Source, ")")
              IN  IF pos1 # -1 /\ pos2 # -1 /\ pos2 > pos1
                  THEN TrimSpace(SubSeq(p.Source, pos1 + 2, pos2))
                  ELSE p.Version
    ELSE IF name = <<"$","A","r","c","h","i","t","e","c","t","u","r","e">> THEN p.Architecture
    ELSE IF name = <<"$","P","a","c","k","a","g","e","T","y","p","e">>
    THEN IF p.IsSource THEN <<"s","o","u","r","c","e">> ELSE IF p.IsUdeb THEN <<"u","d","e","b">> ELSE <<"d","e","b">>
    ELSE IF name = <<"N","a","m","e">> THEN p.Name
    ELSE IF name = <<"V","e","r","s","i","o","n">> THEN p.Version
    ELSE IF name = <<"A","r","c","h","i","t","e","c","t","u","r","e">>
    THEN IF p.IsSource THEN p.SourceArchitecture ELSE p.Architecture
    ELSE IF name = <<"S","o","u","r","c","e">> THEN p.Source
    ELSE IF name = <<"D","e","p","e","n","d","s">> THEN JoinList(p.deps.Depends, <<","," ">>)
    ELSE IF name = <<"P","r","e","-","D","e","p","e","n","d","s">> THEN JoinList(p.deps.PreDepends, <<","," ">>)
    ELSE IF name = <<"S","u","g","g","e","s","t","s">> THEN JoinList(p.deps.Suggests, <<","," ">>)
    ELSE IF name = <<"R","e","c","o","m","m","e","n","d","s">> THEN JoinList(p.deps.Recommends, <<","," ">>)
    ELSE IF name = <<"P","r","o","v","i","d","e","s">> THEN JoinList(p.Provides, <<","," ">>)
    ELSE IF name = <<"B","u","i","l","d","-","D","e","p","e","n","d","s">> THEN JoinList(p.deps.BuildDepends, <<","," ">>)
    ELSE IF name = <<"B","u","i","l","d","-","D","e","p","e","n","d","s","-","I","n","d","e","p">> THEN JoinList(p.deps.BuildDependsInDep, <<","," ">>)
    ELSE Get(p.extra, name)

\* result.Set(key, value) when the condition holds
SetIf(cond, s, key, value) == IF cond THEN Set(s, key, value) ELSE s

\* the lines " checksum size filename\n" of the files that carry the checksum
RECURSIVE SumLines(_, _)
SumLines(files, kind) ==
    IF files = <<>> THEN <<>>
    ELSE LET f == Head(files)
         IN  (IF f.Checksums[kind] # <<>>
              THEN << <<" ">> \o f.Checksums[kind] \o <<" ">> \o Itoa(f.Checksums.Size)
                          \o <<" ">> \o f.Filename \o <<"\n">> >>
              ELSE <<>>) \o SumLines(Tail(files), kind)

\* the lines "sha256  filename" of an installer package
InstallerLines(files) ==
    [i \in 1..Len(files) |-> files[i].Checksums.SHA256 \o <<" "," ">> \o files[i].Filename]

\* the identity fields of a source package written as those of a binary one
StanzaIdentity_Binary(p, s) ==
    LET r == Set(Set(s, <<"P","a","c","k","a","g","e">>, p.Name), <<"V","e","r","s","i","o","n">>, p.Version)
    IN  SetIf(p.Source # <<>>, Set(r, <<"A","r","c","h","i","t","e","c","t","u","r","e">>, p.Architecture), <<"S","o","u","r","c","e">>, p.Source)

\* the Package, Version, Architecture and Source fields set on result
StanzaIdentity(p, s) ==
    LET r == Set(Set(s, <<"P","a","c","k","a","g","e">>, p.Name), <<"V","e","r","s","i","o","n">>, p.Version)
    IN  IF p.IsSource THEN Set(r, <<"A","r","c","h","i","t","e","c","t","u","r","e">>, p.SourceArchitecture)
        ELSE SetIf(p.Source # <<>>, Set(r, <<"A","r","c","h","i","t","e","c","t","u","r","e">>, p.Architecture),
                   <<"S","o","u","r","c","e">>, p.Source)

\* the file fields set on result
StanzaFiles(p, s) ==
    IF p.IsSource
    THEN LET r1 == Set(s, <<"F","i","l","e","s">>, Join(SumLines(p.files, "MD5"), <<>>))
             r2 == SetIf(SumLines(p.files, "SHA1") # <<>>, r1, <<"C","h","e","c","k","s","u","m","s","-","S","h","a","1">>,
                         Join(SumLines(p.files, "SHA1"), <<>>))
             r3 == SetIf(SumLines(p.files, "SHA256") # <<>>, r2, <<"C","h","e","c","k","s","u","m","s","-","S","h","a","2","5","6">>,
                         Join(SumLines(p.files, "SHA256"), <<>>))
         IN  SetIf(SumLines(p.files, "SHA512") # <<>>, r3, <<"C","h","e","c","k","s","u","m","s","-","S","h","a","5","1","2">>,
                   Join(SumLines(p.files, "SHA512"), <<>>))
    ELSE IF p.IsInstaller
    THEN Set(s, <<>>, Join(InstallerLines(p.files), <<"\n">>))
    ELSE LET f == p.files[1]
             r1 == Set(s, <<"F","i","l","e","n","a","m","e">>, DownloadURL(f))
             r2 == SetIf(f.Checksums.MD5 # <<>>, r1, <<"M","D","5","s","u","m">>, f.Checksums.MD5)
             r3 == SetIf(f.Checksums.SHA1 # <<>>, r2, <<"S","H","A","1">>, f.Checksums.SHA1)
             r4 == SetIf(f.Checksums.SHA256 # <<>>, r3, <<"S","H","A","2","5","6">>, f.Checksums.SHA256)
             r5 == SetIf(f.Checksums.SHA512 # <<>>, r4, <<"S","H","A","5","1","2">>, f.Checksums.SHA512)
         IN  Set(r5, <<"S","i","z","e">>, Itoa(f.Checksums.Size))

\* the dependency fields set on result
StanzaDeps(p, s) ==
    LET r1 == SetIf(~p.deps.Depends.nil, s, <<"D","e","p","e","n","d","s">>, JoinList(p.deps.Depends, <<","," ">>))
        r2 == SetIf(~p.deps.PreDepends.nil, r1, <<"P","r","e","-","D","e","p","e","n","d","s">>,
                    JoinList(p.deps.PreDepends, <<","," ">>))
        r3 == SetIf(~p.deps.Suggests.nil, r2, <<"S","u","g","g","e","s","t","s">>, JoinList(p.deps.Suggests, <<","," ">>))
        r4 == SetIf(~p.deps.Recommends.nil, r3, <<"R","e","c","o","m","m","e","n","d","s">>,
                    JoinList(p.deps.Recommends, <<","," ">>))
        r5 == SetIf(~p.Provides.nil, r4, <<"P","r","o","v","i","d","e","s">>, JoinList(p.Provides, <<","," ">>))
        r6 == SetIf(~p.deps.BuildDepends.nil, r5, <<"B","u","i","l","d","-","D","e","p","e","n","d","s">>,
                    JoinList(p.deps.BuildDepends, <<","," ">>))
    IN  SetIf(~p.deps.BuildDependsInDep.nil, r6, <<"B","u","i","l","d","-","D","e","p","e","n","d","s","-","I","n","d","e","p">>,
              JoinList(p.deps.BuildDependsInDep, <<","," ">>))

\* p.Files()[0] of a binary package with no file is out of range
StanzaPanics(p) == ~p.IsSource /\ ~p.IsInstaller /\ p.files = <<>>

\* a Stanza() that returns result itself
Stanza_NoCopy(p) ==
    IF StanzaPanics(p)
    THEN [extra |-> StanzaIdentity(p, p.extra), result |-> EmptyStanza, panic |-> TRUE,
          alias |-> "none"]
    ELSE LET r == StanzaDeps(p, StanzaFiles(p, StanzaIdentity(p, p.extra)))
         IN  [extra |-> r, result |-> r, panic |-> FALSE, alias |-> "map"]

\* Package.Stanza(): result is the map p.Extra() returns, so every Set is made
\* on the package's extra fields; extra is that map as the call leaves it.
\* What is returned is result.Copy(), a new map with new builders.
Stanza(p) ==
    IF StanzaPanics(p)
    THEN [extra |-> StanzaIdentity(p, p.extra), result |-> EmptyStanza, panic |-> TRUE,
          alias |-> "none"]
    ELSE LET r == StanzaDeps(p, StanzaFiles(p, StanzaIdentity(p, p.extra)))
         IN  [extra |-> r, result |-> Copy(r), panic |-> FALSE, alias |-> "none"]

(***************************************************************************)
(* Source and installer packages                                           *)
(***************************************************************************)
\* strings.Fields(s): the words of s
RECURSIVE Fields(_)
Fields(s) ==
    LET t == TrimLeft(s)
        spaces == {i \in 1..Len(t) : IsSpace(t[i])}
        n == IF spaces = {} THEN Len(t) + 1 ELSE CHOOSE i \in spaces : \A j \in spaces : i <= j
    IN  IF t = <<>> THEN <<>>
        ELSE <<SubSeq(t, 1, n - 1)>> \o Fields(SubSeq(t, n, Len(t)))

\* files with the checksum of one kind, and the size, recorded for filename:
\* on the record of that name, or on a new record at the end
RecordSum(files, filename, kind, sum, size) ==
    LET NewFile == [Filename |-> filename, downloadPath |-> <<>>,
                    Checksums |-> [Size |-> 0, MD5 |-> <<>>, SHA1 |-> <<>>,
                                   SHA256 |-> <<>>, SHA512 |-> <<>>]]
        known == \E i \in 1..Len(files) : files[i].Filename = filename
        all == IF known THEN files ELSE Append(files, NewFile)
    IN  [i \in 1..Len(all) |->
            IF all[i].Filename = filename
               /\ \A j \in 1..(i - 1) : all[j].Filename # filename
            THEN [all[i] EXCEPT !.Checksums[kind] = sum, !.Checksums.Size = size]
            ELSE all[i]]

\* the file-record parser on the lines of one block: "checksum size filename"
\* with a size, "checksum filename" without; blank lines are skipped
RECURSIVE ParseSumLines(_, _, _, _)
ParseSumLines(files, ls, kind, withSize) ==
    IF ls = <<>> THEN [files |-> files, err |-> "nil"]
    ELSE LET parts == Fields(Head(ls))
             \* strconv.ParseInt(s, 10, 64) returns no error
             ParseIntOK(s) ==
                 LET digits == IF s # <<>> /\ s[1] \in {"+", "-"} THEN Tail(s) ELSE s
                 IN  digits # <<>> /\ \A i \in 1..Len(digits) : IsDigit(digits[i])
         IN  IF parts = <<>> THEN ParseSumLines(files, Tail(ls), kind, withSize)
             ELSE IF Len(parts) < (IF withSize THEN 3 ELSE 2)
                     \/ (withSize /\ ~ParseIntOK(parts[2]))
             THEN [files |-> <<>>, err |-> "ErrUnparseable"]
             ELSE ParseSumLines(RecordSum(files,
                                          IF withSize THEN Base(parts[Len(parts)])
                                          ELSE parts[Len(parts)],
                                          kind, parts[1],
                                          IF withSize THEN ParseInt(parts[2]) ELSE 0),
                                Tail(ls), kind, withSize)

\* PackageFiles.ParseSumField(input, setter, withSize, ...)
ParseSumField(files, text, kind, withSize) ==
    ParseSumLines(files, Split(text, "\n"), kind, withSize)

\* PackageFiles.ParseSumFields(input): the blocks Files, Checksums-Sha1 and
\* Checksums-Sha256, merged into one record per file name
ParseSumFields(in) ==
    LET md5 == ParseSumField(<<>>, Get(in, <<"F","i","l","e","s">>), "MD5", TRUE)
        sha1 == ParseSumField(md5.files, Get(in, <<"C","h","e","c","k","s","u","m","s","-","S","h","a","1">>), "SHA1", TRUE)
    IN  IF md5.err # "nil" THEN md5
        ELSE IF sha1.err # "nil" THEN sha1
        ELSE ParseSumField(sha1.files, Get(in, <<"C","h","e","c","k","s","u","m","s","-","S","h","a","2","5","6">>), "SHA256", TRUE)

\* NewSourcePackageFromControlFile(input): the package or the error, and
\* input as it is left
NewSourcePackageFromControlFile(in, hash) ==
    LET in1 == ResetAll(in, << <<"P","a","c","k","a","g","e">>, <<"V","e","r","s","i","o","n">>, <<"A","r","c","h","i","t","e","c","t","u","r","e">> >>)
        parse == ParseSumFields(in1)
        in2 == ResetAll(in1, << <<"F","i","l","e","s">>, <<"C","h","e","c","k","s","u","m","s","-","S","h","a","1">>, <<"C","h","e","c","k","s","u","m","s","-","S","h","a","2","5","6">> >>)
        files == [i \in 1..Len(parse.files) |->
                     [parse.files[i] EXCEPT !.downloadPath = Get(in2, <<"D","i","r","e","c","t","o","r","y">>)]]
        buildDepends == parseDependencies(in2, <<"B","u","i","l","d","-","D","e","p","e","n","d","s">>)
        buildDependsInDep == parseDependencies(buildDepends.input, <<"B","u","i","l","d","-","D","e","p","e","n","d","s","-","I","n","d","e","p">>)
    IN  IF parse.err # "nil" THEN [pkg |-> EmptyStanza, input |-> in1, err |-> parse.err]
        ELSE [pkg |-> [Name |-> Get(in, <<"P","a","c","k","a","g","e">>),
                       Version |-> Get(in, <<"V","e","r","s","i","o","n">>),
                       Architecture |-> <<"s","o","u","r","c","e">>,
                       SourceArchitecture |-> Get(in, <<"A","r","c","h","i","t","e","c","t","u","r","e">>),
                       Source |-> <<>>,
                       Provides |-> NilList,
                       FilesHash |-> hash,
                       IsInstaller |-> FALSE,
                       IsSource |-> TRUE,
                       IsUdeb |-> FALSE,
                       V06Plus |-> TRUE,
                       deps |-> [Depends |-> NilList,
                                 PreDepends |-> NilList,
                                 Suggests |-> NilList,
                                 Recommends |-> NilList,
                                 BuildDepends |-> buildDepends.list,
                                 BuildDependsInDep |-> buildDependsInDep.list],
                       extra |-> Copy(buildDependsInDep.input),
                       files |-> files,
                       nil |-> {},
                       collection |-> FALSE],
              input |-> buildDependsInDep.input,
              err |-> "nil"]

\* NewInstallerPackageFromControlFile(input, repo, component, architecture, d):
\* size is what d.GetLength returns, lengthErr whether it returns an error;
\* the repository's distribution is "d", the component "main"
NewInstallerPackageFromControlFile(in, architecture, size, lengthErr, hash) ==
    LET parse == ParseSumField(<<>>, Get(in, <<>>), "SHA256", FALSE)
        relPath == <<"d","i","s","t","s","/","d","/","m","a","i","n","/","i","n","s","t","a","l","l","e","r","-">> \o architecture \o <<"/","c","u","r","r","e","n","t","/","i","m","a","g","e","s">>
        files == [i \in 1..Len(parse.files) |->
                     [parse.files[i] EXCEPT !.downloadPath = relPath,
                                            !.Checksums.Size = size]]
    IN  IF parse.err # "nil" THEN [pkg |-> EmptyStanza, input |-> in, err |-> parse.err]
        ELSE IF lengthErr /\ parse.files # <<>>
        THEN [pkg |-> EmptyStanza, input |-> in, err |-> "ErrGetLength"]
        ELSE [pkg |-> [Name |-> <<"i","n","s","t","a","l","l","e","r">>,
                       Version |-> <<>>,
                       Architecture |-> architecture,
                       SourceArchitecture |-> <<>>,
                       Source |-> <<>>,
                       Provides |-> NilList,
                       FilesHash |-> hash,
                       IsInstaller |-> TRUE,
                       IsSource |-> FALSE,
                       IsUdeb |-> FALSE,
                       V06Plus |-> TRUE,
                       deps |-> [Depends |-> NilList,
                                 PreDepends |-> NilList,
                                 Suggests |-> NilList,
                                 Recommends |-> NilList,
                                 BuildDepends |-> NilList,
                                 BuildDependsInDep |-> NilList],
                       extra |-> EmptyStanza,
                       files |-> files,
                       nil |-> {},
                       collection |-> FALSE],
              input |-> in,
              err |-> "nil"]

\* the stanza with the given <<key, value>> pairs
StanzaOf(pairs) ==
    [k \in {pairs[i][1] : i \in 1..Len(pairs)} |->
        pairs[CHOOSE i \in 1..Len(pairs) : pairs[i][1] = k][2]]

\* the fields of both stanzas
Merge(a, b) == [k \in DOMAIN a \cup DOMAIN b |-> IF k \in DOMAIN b THEN b[k] ELSE a[k]]

\* the identity fields of the input stanzas
CoreParts ==
    { EmptyStanza,
      StanzaOf(<< << <<"P","a","c","k","a","g","e">>, <<"f","o","o">> >>, << <<"V","e","r","s","i","o","n">>, <<"1",".","0">> >>,
                  << <<"A","r","c","h","i","t","e","c","t","u","r","e">>, <<"a","m","d","6","4">> >> >>),
      StanzaOf(<< << <<"P","a","c","k","a","g","e">>, <<"f","o","o">> >>, << <<"V","e","r","s","i","o","n">>, <<"1",".","0">> >>,
                  << <<"A","r","c","h","i","t","e","c","t","u","r","e">>, <<"a","m","d","6","4">> >>, << <<"S","o","u","r","c","e">>, <<"b","a","r"," ","(","2",".","0",")">> >> >>) }

\* their dependency fields
DepsParts ==
    { EmptyStanza,
      StanzaOf(<< << <<"D","e","p","e","n","d","s">>, <<"a",","," ","b"," ",","," ","c">> >> >>),
      StanzaOf(<< << <<"D","e","p","e","n","d","s">>, <<" ">> >>, << <<"P","r","o","v","i","d","e","s">>, <<>> >> >>),
      StanzaOf(<< << <<"D","e","p","e","n","d","s">>, <<"a",",",",","b"," ","(",">","="," ","1",")"," ","|"," ","c",",">> >>, << <<"P","r","e","-","D","e","p","e","n","d","s">>, <<"p">> >>,
                  << <<"P","r","o","v","i","d","e","s">>, <<"v"," ",",","w">> >> >>),
      StanzaOf(<< << <<"S","u","g","g","e","s","t","s">>, <<"\t","s">> >>, << <<"R","e","c","o","m","m","e","n","d","s">>, <<"r">> >>,
                  << <<"P","r","e","-","D","e","p","e","n","d","s">>, <<"\t"," ","\n">> >> >>) }

\* their file fields
FilesParts ==
    { EmptyStanza,
      StanzaOf(<< << <<"F","i","l","e","n","a","m","e">>, <<"p","o","o","l","/","m","a","i","n","/","f",".","d","e","b">> >>, << <<"S","i","z","e">>, <<"1","2">> >>,
                  << <<"M","D","5","s","u","m">>, <<"m"," ">> >>, << <<"S","H","A","1">>, <<"s">> >>, << <<"S","H","A","2","5","6">>, <<" ","h">> >> >>),
      StanzaOf(<< << <<"F","i","l","e","n","a","m","e">>, <<"f",".","d","e","b">> >>, << <<"S","i","z","e">>, <<"1","x">> >>,
                  << <<"M","D","5","s","u","m">>, <<>> >>, << <<"M","D","5","S","u","m">>, <<"n">> >>, << <<"S","H","A","5","1","2">>, <<"z">> >> >>) }

\* their other fields
ExtraParts ==
    { EmptyStanza,
      StanzaOf(<< << <<"D","e","s","c","r","i","p","t","i","o","n">>, <<" ","d","\n">> >>, << <<"X","-","C","u","s","t","o","m">>, <<"1">> >>,
                  << <<"P","r","i","o","r","i","t","y">>, <<>> >> >>) }

\* the stanzas the constructors are given
InputStanzas ==
    {Merge(Merge(c, d), Merge(f, e)) :
        c \in CoreParts, d \in DepsParts, f \in FilesParts, e \in ExtraParts}

\* the identity fields of the source stanzas
SourceCoreParts ==
    { EmptyStanza,
      StanzaOf(<< << <<"P","a","c","k","a","g","e">>, <<"f","o","o">> >>, << <<"V","e","r","s","i","o","n">>, <<"1",".","0">> >>,
                  << <<"A","r","c","h","i","t","e","c","t","u","r","e">>, <<"a","n","y">> >> >>),
      StanzaOf(<< << <<"P","a","c","k","a","g","e">>, <<"f","o","o">> >>, << <<"V","e","r","s","i","o","n">>, <<"1",".","0">> >>,
                  << <<"A","r","c","h","i","t","e","c","t","u","r","e">>, <<"a","n","y">> >>, << <<"S","o","u","r","c","e">>, <<"b","a","r">> >> >>) }

\* their checksum blocks
SourceSumsParts ==
    { EmptyStanza,
      StanzaOf(<< << <<"F","i","l","e","s">>, <<" ","m","1"," ","3"," ","f",".","d","s","c","\n"," ","m","2"," ","4"," ","f",".","t","a","r","\n">> >>,
                  << <<"C","h","e","c","k","s","u","m","s","-","S","h","a","1">>, <<" ","s","1"," ","3"," ","f",".","d","s","c","\n">> >>,
                  << <<"C","h","e","c","k","s","u","m","s","-","S","h","a","2","5","6">>, <<"\n"," ","h","2"," "," ","4"," ","p","o","o","l","/","f",".","t","a","r","\n">> >>,
                  << <<"D","i","r","e","c","t","o","r","y">>, <<"p","o","o","l","/","f">> >> >>),
      StanzaOf(<< << <<"F","i","l","e","s">>, <<" ","m","1"," ","f",".","d","s","c","\n">> >> >>),
      StanzaOf(<< << <<"C","h","e","c","k","s","u","m","s","-","S","h","a","2","5","6">>, <<" ","h","3"," ","5"," ","g",".","d","s","c">> >>,
                  << <<"C","h","e","c","k","s","u","m","s","-","S","h","a","5","1","2">>, <<" ","z","3"," ","5"," ","g",".","d","s","c","\n">> >> >>) }

\* their dependency fields
SourceDepsParts ==
    { EmptyStanza,
      StanzaOf(<< << <<"B","u","i","l","d","-","D","e","p","e","n","d","s">>, <<"x",","," ","y">> >>, << <<"B","u","i","l","d","-","D","e","p","e","n","d","s","-","I","n","d","e","p">>, <<" ">> >>,
                  << <<"D","e","p","e","n","d","s">>, <<"q">> >> >>) }

\* the stanzas the source constructor is given
SourceStanzas ==
    {Merge(Merge(c, d), Merge(f, e)) :
        c \in SourceCoreParts, d \in SourceDepsParts, f \in SourceSumsParts,
        e \in ExtraParts}

\* the stanzas the installer constructor is given
InstallerStanzas ==
    { EmptyStanza,
      StanzaOf(<< << <<>>, <<"a","b","c"," "," ","f","1","\n","d","e","f"," "," ","f","2","\n">> >> >>),
      StanzaOf(<< << <<>>, <<"a","b","c">> >> >>) }

\* the keys parseDependencies is called with
DepKeys == { <<"D","e","p","e","n","d","s">>, <<"P","r","e","-","D","e","p","e","n","d","s">>, <<"S","u","g","g","e","s","t","s">>, <<"R","e","c","o","m","m","e","n","d","s">>, <<"P","r","o","v","i","d","e","s">>,
             <<"B","u","i","l","d","-","D","e","p","e","n","d","s">> }

\* the files UpdateFiles is given
FilesPool ==
    { <<>>,
      << [Filename |-> <<"g",".","d","e","b">>, downloadPath |-> <<"p","o","o","l">>,
          Checksums |-> [Size |-> 7, MD5 |-> <<>>, SHA1 |-> <<"t">>, SHA256 |-> <<>>,
                         SHA512 |-> <<>>]] >> }

\* parseDependencies(input, key)
CallParseDependencies ==
    /\ pkgpc = "input"
    /\ \E key \in DepKeys :
        /\ parsed' = [key |-> key, list |-> parseDependencies(input, key).list]
        /\ input' = parseDependencies(input, key).input
    /\ pkgpc' = "parsed"
    /\ pkgEv' = "parseDependencies"
    /\ UNCHANGED <<input0, pkg, result, alias, codecVars, importVars, caseVars, stanzaVars,
                   readVars>>

\* p := NewPackageFromControlFile(input)
CallNewPackageFromControlFile ==
    /\ pkgpc = "input"
    /\ input0 \in InputStanzas
    /\ \E hash \in HashValues :
        /\ pkg' = NewPackageFromControlFile(input, hash).pkg
        /\ input' = NewPackageFromControlFile(input, hash).input
    /\ pkgpc' = "built"
    /\ pkgEv' = "NewPackageFromControlFile"
    /\ UNCHANGED <<input0, result, parsed, alias, codecVars, importVars, caseVars, stanzaVars,
                   readVars>>

\* p := NewUdebPackageFromControlFile(input)
CallNewUdebPackageFromControlFile ==
    /\ pkgpc = "input"
    /\ input0 \in InputStanzas
    /\ \E hash \in HashValues :
        /\ pkg' = NewUdebPackageFromControlFile(input, hash).pkg
        /\ input' = NewUdebPackageFromControlFile(input, hash).input
    /\ pkgpc' = "built"
    /\ pkgEv' = "NewUdebPackageFromControlFile"
    /\ UNCHANGED <<input0, result, parsed, alias, codecVars, importVars, caseVars, stanzaVars,
                   readVars>>

\* p, err := NewSourcePackageFromControlFile(input)
CallNewSourcePackageFromControlFile ==
    /\ pkgpc = "input"
    /\ input0 \in SourceStanzas
    /\ \E hash \in HashValues :
        LET r == NewSourcePackageFromControlFile(input, hash)
        IN  /\ pkg' = r.pkg
            /\ input' = r.input
            /\ pkgpc' = IF r.err = "nil" THEN "built" ELSE "failed"
            /\ pkgEv' = IF r.err = "nil" THEN "NewSourcePackageFromControlFile"
                        ELSE r.err
    /\ UNCHANGED <<input0, result, parsed, alias, codecVars, importVars, caseVars, stanzaVars,
                   readVars>>

\* p, err := NewInstallerPackageFromControlFile(input, repo, component, architecture, d)
CallNewInstallerPackageFromControlFile ==
    /\ pkgpc = "input"
    /\ input0 \in InstallerStanzas
    /\ \E hash \in HashValues, lengthErr \in BOOLEAN :
        LET r == NewInstallerPackageFromControlFile(input, <<"a","m","d","6","4">>, 3, lengthErr, hash)
        IN  /\ pkg' = r.pkg
            /\ input' = r.input
            /\ pkgpc' = IF r.err = "nil" THEN "built" ELSE "failed"
            /\ pkgEv' = IF r.err = "nil" THEN "NewInstallerPackageFromControlFile"
                        ELSE r.err
    /\ UNCHANGED <<input0, result, parsed, alias, codecVars, importVars, caseVars, stanzaVars,
                   readVars>>

\* p.Stanza()
CallStanza ==
    /\ pkgpc = "built"
    /\ pkg' = [pkg EXCEPT !.extra = Stanza(pkg).extra]
    /\ IF Stanza(pkg).panic
       THEN pkgEv' = "StanzaPanic" /\ UNCHANGED <<result, alias>>
       ELSE pkgEv' = "Stanza" /\ result' = Stanza(pkg).result /\ alias' = Stanza(pkg).alias
    /\ UNCHANGED <<input0, input, pkgpc, parsed, codecVars, importVars, caseVars, stanzaVars,
                   readVars>>

\* p.UpdateFiles(files)
CallUpdateFiles ==
    /\ pkgpc = "built"
    /\ \E files \in FilesPool, hash \in HashValues :
        pkg' = UpdateFiles(pkg, files, hash)
    /\ pkgEv' = "UpdateFiles"
    /\ UNCHANGED <<input0, input, pkgpc, result, parsed, alias, codecVars, importVars, caseVars, stanzaVars,
                   readVars>>

\* the caller changes the stanza Stanza() returned into r: the package's
\* extra fields change with it when they are the same map
Mutated(r) ==
    /\ pkgpc = "built"
    /\ pkgEv = "Stanza"
    /\ result' = r
    /\ pkg' = IF alias = "map" THEN [pkg EXCEPT !.extra = r] ELSE pkg
    /\ pkgEv' = "Mutate"
    /\ UNCHANGED <<input0, input, pkgpc, parsed, alias, codecVars, importVars, caseVars, stanzaVars,
                   readVars>>

\* the keys the caller changes
MutateKeys == { <<"P","a","c","k","a","g","e">>, <<"D","e","p","e","n","d","s">>, <<"X","-","C","u","s","t","o","m">> }

\* result.Set(key, value)
CallResultSet == \E key \in MutateKeys : Mutated(Set(result, key, <<"z","z">>))

\* result.Reset(key)
CallResultReset == \E key \in MutateKeys : Mutated(ResetBuilder(result, key))

\* delete(result, key)
CallResultDelete == \E key \in MutateKeys : Mutated(Delete(result, key))

\* result.WriteTo(w, isSource, false, isInstaller)
CallResultWriteTo ==
    Mutated(WriteTo(result, pkg.IsSource, FALSE, pkg.IsInstaller).left)

InitPkg ==
    /\ ImportOff
    /\ CodecOff
    /\ CaseOff
    /\ StanzaOff
    /\ input0 \in InputStanzas \cup SourceStanzas \cup InstallerStanzas
    /\ input = input0
    /\ pkg = EmptyStanza
    /\ pkgpc = "input"
    /\ pkgEv = "input"
    /\ result = EmptyStanza
    /\ parsed = EmptyStanza
    /\ alias = "none"
    /\ ReadOff

NextPkg ==
    \/ CallParseDependencies
    \/ CallNewPackageFromControlFile
    \/ CallNewUdebPackageFromControlFile
    \/ CallNewSourcePackageFromControlFile
    \/ CallNewInstallerPackageFromControlFile
    \/ CallStanza
    \/ CallUpdateFiles
    \/ CallResultSet
    \/ CallResultReset
    \/ CallResultDelete
    \/ CallResultWriteTo

SpecPkg == InitPkg /\ [][NextPkg]_vars

\* s without the whitespace at its ends
Strip(s) ==
    LET inner == {i \in 1..Len(s) : ~IsSpace(s[i])}
    IN  IF inner = {} THEN <<>>
        ELSE SubSeq(s, CHOOSE i \in inner : \A j \in inner : i <= j, Max(inner))

\* the items between the commas of v, each without the whitespace at its ends
Items(v) ==
    LET t == Strip(v)
        commas == {i \in 1..Len(t) : t[i] = ","}
        n == Cardinality(commas) + 1
        bound(k) == IF k = 0 THEN 0
                    ELSE IF k = n THEN Len(t) + 1
                    ELSE CHOOSE i \in commas : Cardinality({j \in commas : j <= i}) = k
    IN  [k \in 1..n |-> Strip(SubSeq(t, bound(k - 1) + 1, bound(k) - 1))]

\* the list the comma-split rule gives for the field key of stanza s
CommaSplit(s, key) ==
    IF Strip(Get(s, key)) = <<>> THEN [nil |-> TRUE, items |-> <<>>]
    ELSE [nil |-> FALSE, items |-> Items(Get(s, key))]

\* C17: parseDependencies returns the nil list, never an empty list that is
\* present, when the field is empty or holds only whitespace; otherwise it
\* returns the items between the commas in their order, each trimmed.
C17_ParseDependencies ==
    pkgEv = "parseDependencies" =>
        /\ parsed.list = CommaSplit(input0, parsed.key)
        /\ parsed.list.nil <=> Strip(Get(input0, parsed.key)) = <<>>
        /\ ~parsed.list.nil => Len(parsed.list.items) >= 1

\* a field of blanks only gave the nil list
C17_Witness ==
    /\ pkgEv = "parseDependencies"
    /\ parsed.key = <<"P","r","e","-","D","e","p","e","n","d","s">>
    /\ Get(input0, <<"P","r","e","-","D","e","p","e","n","d","s">>) = <<"\t"," ","\n">>
    /\ parsed.list.nil

\* the stanza of the documented scenario
ScenarioPackage ==
    StanzaOf(<< << <<"P","a","c","k","a","g","e">>, <<"f","o","o">> >>, << <<"V","e","r","s","i","o","n">>, <<"1",".","0">> >>,
                << <<"A","r","c","h","i","t","e","c","t","u","r","e">>, <<"a","m","d","6","4">> >>, << <<"D","e","p","e","n","d","s">>, <<"a",","," ","b"," ",","," ","c">> >> >>)

\* a constructor has just returned
Constructed == pkgEv \in {"NewPackageFromControlFile", "NewUdebPackageFromControlFile"}

\* C18: NewPackageFromControlFile copies Package, Version, Architecture and
\* Source verbatim and parses Depends, Pre-Depends, Suggests, Recommends and
\* Provides by the comma-split rule; the scenario stanza gives Name = foo,
\* Version = 1.0, Architecture = amd64, Depends = [a, b, c].
C18_BinaryPackage ==
    (pkgpc = "built" /\ ~pkg.IsSource /\ ~pkg.IsInstaller) =>
        /\ pkg.Name = Get(input0, <<"P","a","c","k","a","g","e">>)
        /\ pkg.Version = Get(input0, <<"V","e","r","s","i","o","n">>)
        /\ pkg.Architecture = Get(input0, <<"A","r","c","h","i","t","e","c","t","u","r","e">>)
        /\ pkg.Source = Get(input0, <<"S","o","u","r","c","e">>)
        /\ pkg.deps.Depends = CommaSplit(input0, <<"D","e","p","e","n","d","s">>)
        /\ pkg.deps.PreDepends = CommaSplit(input0, <<"P","r","e","-","D","e","p","e","n","d","s">>)
        /\ pkg.deps.Suggests = CommaSplit(input0, <<"S","u","g","g","e","s","t","s">>)
        /\ pkg.deps.Recommends = CommaSplit(input0, <<"R","e","c","o","m","m","e","n","d","s">>)
        /\ pkg.Provides = CommaSplit(input0, <<"P","r","o","v","i","d","e","s">>)
        /\ input0 = ScenarioPackage =>
              /\ pkg.Name = <<"f","o","o">>
              /\ pkg.Version = <<"1",".","0">>
              /\ pkg.Architecture = <<"a","m","d","6","4">>
              /\ pkg.deps.Depends.items = << <<"a">>, <<"b">>, <<"c">> >>

\* the scenario stanza has been made a package
C18_Witness ==
    /\ pkgEv = "NewPackageFromControlFile"
    /\ input0 = ScenarioPackage
    /\ pkg.Name = <<"f","o","o">>
    /\ pkg.deps.Depends.items = << <<"a">>, <<"b">>, <<"c">> >>

\* the fields the binary constructor consumes
ConsumedFields ==
    { <<"P","a","c","k","a","g","e">>, <<"V","e","r","s","i","o","n">>, <<"A","r","c","h","i","t","e","c","t","u","r","e">>, <<"S","o","u","r","c","e">>, <<"F","i","l","e","n","a","m","e">>, <<"S","i","z","e">>,
      <<"M","D","5","s","u","m">>, <<"M","D","5","S","u","m">>, <<"S","H","A","1">>, <<"S","H","A","2","5","6">>, <<"S","H","A","5","1","2">>, <<"D","e","p","e","n","d","s">>, <<"P","r","e","-","D","e","p","e","n","d","s">>,
      <<"S","u","g","g","e","s","t","s">>, <<"R","e","c","o","m","m","e","n","d","s">>, <<"P","r","o","v","i","d","e","s">> }

\* C19: after NewPackageFromControlFile or NewUdebPackageFromControlFile the
\* extra fields hold a non-empty value for none of the consumed fields, and
\* are empty when the input holds only consumed fields.
C19_NoLeak ==
    Constructed =>
        /\ \A f \in ConsumedFields : Get(pkg.extra, f) = <<>>
        /\ DOMAIN input0 \subseteq ConsumedFields => ~HasValue(pkg.extra)

\* the field names Extra().Get and GetField are asked for
FieldNames ==
    UNION {DOMAIN s : s \in InputStanzas}
        \cup { <<"$","S","o","u","r","c","e">>, <<"$","S","o","u","r","c","e","V","e","r","s","i","o","n">>, <<"$","A","r","c","h","i","t","e","c","t","u","r","e">>, <<"$","P","a","c","k","a","g","e","T","y","p","e">>, <<"N","a","m","e">>,
               <<"B","u","i","l","d","-","D","e","p","e","n","d","s">>, <<"B","u","i","l","d","-","D","e","p","e","n","d","s","-","I","n","d","e","p">>, <<"C","h","e","c","k","s","u","m","s","-","S","h","a","1">>, <<>> }

\* C20: Stanza() leaves the package unchanged: for every field name,
\* Extra().Get(name) and GetField(name) return after the call what they
\* returned before it, in any sequence of Stanza() and UpdateFiles() calls.
C20_StanzaKeepsPackage ==
    [][(pkgpc = "built" /\ pkgEv' \in {"Stanza", "StanzaPanic"}) =>
          \A name \in FieldNames :
              /\ Get(pkg'.extra, name) = Get(pkg.extra, name)
              /\ GetField(pkg', name) = GetField(pkg, name)]_vars

\* the text ends with a newline
EndsWithNewline(text) == text # <<>> /\ text[Len(text)] = "\n"

\* C30: every field WriteTo emits ends with a newline, the unnamed field
\* included, so the output for a stanza with at least one field ends with
\* a newline and no two fields share an output line.
C30_FieldsEndWithNewline ==
    phase = "back" =>
        /\ \A i \in 1..Len(written) : EndsWithNewline(written[i].text)
        /\ written # <<>> => EndsWithNewline(Flatten(written))

(***************************************************************************)
(* WriteTo on a writer that fails                                          *)
(***************************************************************************)
\* first loop of WriteTo when the failAt-th call of writeField returns an
\* error (0: none does); the field is deleted before writeField is called
RECURSIVE WriteCanonicalErr(_, _, _, _, _, _)
WriteCanonicalErr(order, i, s, w, release, failAt) ==
    IF i > Len(order) THEN [left |-> s, written |-> w, err |-> "nil"]
    ELSE IF order[i] \in DOMAIN s
    THEN IF Len(w) + 1 = failAt
         THEN [left |-> Delete(s, order[i]), written |-> w, err |-> "ErrWrite"]
         ELSE WriteCanonicalErr(order, i + 1, Delete(s, order[i]),
                                Append(w, [field |-> order[i],
                                           text |-> writeField(order[i], s[order[i]], release)]),
                                release, failAt)
    ELSE WriteCanonicalErr(order, i + 1, s, w, release, failAt)

\* Stanza.WriteTo when the failAt-th call of writeField returns an error
WriteToErr(s, source, release, installer, failAt) ==
    LET c == WriteCanonicalErr(canonicalOrder(source, release, installer), 1, s, <<>>,
                               release, failAt)
        extra == WriteExtra(c.left, release)
        n == failAt - Len(c.written) - 1
    IN  IF c.err # "nil" \/ installer THEN c
        ELSE IF failAt = 0 \/ n >= Len(extra)
        THEN [left |-> c.left, written |-> c.written \o extra, err |-> "nil"]
        ELSE [left |-> c.left, written |-> c.written \o SubSeq(extra, 1, n),
              err |-> "ErrWrite"]

\* the stanzas written to the failing writer
FailStanzas ==
    BuiltStanzas
        \cup { StanzaOf(<< << <<"P","a","c","k","a","g","e">>, <<"f","o","o">> >>, << <<"V","e","r","s","i","o","n">>, <<"1",".","0">> >>,
                           << <<"D","e","s","c","r","i","p","t","i","o","n">>, <<" ","d","\n">> >>, << <<"X","-","C","u","s","t","o","m">>, <<"1">> >> >>),
               StanzaOf(<< << <<"O","r","i","g","i","n">>, <<"o">> >>, << <<"A","r","c","h","i","t","e","c","t","u","r","e","s">>, <<"a","m","d","6","4">> >>,
                           << <<"S","H","A","2","5","6">>, <<" ","h"," ","1"," ","f","\n">> >> >>),
               StanzaOf(<< << <<"D","i","r","e","c","t","o","r","y">>, <<"p","o","o","l">> >>, << <<"B","i","n","a","r","y">>, <<"f","o","o">> >> >>) }

\* the most fields a stanza written has
MaxFields == 5

\* s.WriteTo(w, isSource, isRelease, isInstaller) on a writer that may fail
CallWriteToErr ==
    /\ phase = "read"
    /\ \E s \in FailStanzas, source \in BOOLEAN, failAt \in 0..MaxFields :
        LET w == WriteToErr(Copy(s), source, isRelease, isInstaller, failAt)
        IN  /\ orig' = s
            /\ isSource' = source
            /\ written' = w.written
            /\ left' = w.left
            /\ werr' = w.err
    /\ phase' = "written"
    /\ ev' = "write"
    /\ UNCHANGED <<Other, Config, lines, pos, scanErr, pc, stanza, lastField,
                   lastFieldMultiline, lastValue, ret, ncalls, start, fromReader>>

\* the stanza that is left is written again, to a writer that works
CallWriteToAgain ==
    /\ phase = "written"
    /\ LET w == WriteToErr(left, isSource, isRelease, isInstaller, 0)
       IN  /\ written' = written \o w.written
           /\ left' = w.left
           /\ werr' = w.err
    /\ phase' = "retried"
    /\ ev' = "write"
    /\ UNCHANGED <<Other, Config, lines, pos, scanErr, pc, stanza, lastField,
                   lastFieldMultiline, lastValue, ret, ncalls, start, fromReader,
                   orig, isSource>>

InitFail ==
    /\ ImportOff
    /\ CodecInit(<<>>)
    /\ CaseOff
    /\ StanzaOff
    /\ PkgOff

NextFail ==
    \/ CallWriteToErr
    \/ CallWriteToAgain

SpecFail == InitFail /\ [][NextFail]_vars

\* the fields emitted so far
Emitted == {written[i].field : i \in 1..Len(written)}

\* C29: when a field write fails, WriteTo returns the error at once, and
\* the fields removed from the stanza are exactly the fields that were
\* emitted.
C29_RemovedAreEmitted ==
    (phase = "written" /\ werr # "nil") =>
        /\ DOMAIN left \subseteq DOMAIN orig
        /\ DOMAIN orig \ DOMAIN left = Emitted

\* C21: the stanza Stanza() returns is an independent copy: setting,
\* resetting or deleting its fields, or writing it with WriteTo, changes
\* neither the package's extra fields nor what a later Stanza() returns.
C21_IndependentCopy ==
    [][(pkgEv' = "Mutate") =>
          /\ pkg'.extra = pkg.extra
          /\ Stanza(pkg').result = Stanza(pkg).result]_vars

\* the caller has changed a field of the returned stanza that the extra
\* fields hold too
C21_Witness ==
    /\ pkgEv = "Mutate"
    /\ <<"X","-","C","u","s","t","o","m">> \in DOMAIN pkg.extra
    /\ Get(result, <<"X","-","C","u","s","t","o","m">>) # Get(pkg.extra, <<"X","-","C","u","s","t","o","m">>)

\* the parsed lists of package p, by the name of their field
DependencyLists(p) ==
    StanzaOf(<< << <<"D","e","p","e","n","d","s">>, p.deps.Depends >>,
                << <<"P","r","e","-","D","e","p","e","n","d","s">>, p.deps.PreDepends >>,
                << <<"S","u","g","g","e","s","t","s">>, p.deps.Suggests >>,
                << <<"R","e","c","o","m","m","e","n","d","s">>, p.deps.Recommends >>,
                << <<"P","r","o","v","i","d","e","s">>, p.Provides >>,
                << <<"B","u","i","l","d","-","D","e","p","e","n","d","s">>, p.deps.BuildDepends >>,
                << <<"B","u","i","l","d","-","D","e","p","e","n","d","s","-","I","n","d","e","p">>, p.deps.BuildDependsInDep >> >>)

\* C22: for a package built by a constructor, the stanza Stanza() returns has
\* no key Depends, Pre-Depends, Suggests, Recommends, Provides, Build-Depends
\* or Build-Depends-Indep whose parsed list is nil, also when the input held
\* the field with an empty or whitespace-only value.
C22_NoKeyForNilList ==
    (pkgpc = "built" /\ pkgEv = "Stanza") =>
        \A name \in DOMAIN DependencyLists(pkg) :
            DependencyLists(pkg)[name].nil => name \notin DOMAIN result

\* the checksum block fields of a source package and the kind each holds
ChecksumBlocks ==
    StanzaOf(<< << <<"F","i","l","e","s">>, "MD5" >>, << <<"C","h","e","c","k","s","u","m","s","-","S","h","a","1">>, "SHA1" >>,
                << <<"C","h","e","c","k","s","u","m","s","-","S","h","a","2","5","6">>, "SHA256" >>, << <<"C","h","e","c","k","s","u","m","s","-","S","h","a","5","1","2">>, "SHA512" >> >>)

\* C23: Stanza() of a source package sets each checksum block field (Files,
\* Checksums-Sha1, Checksums-Sha256, Checksums-Sha512) to one line
\* " checksum size filename\n" per file that carries the kind, in file order,
\* and does not set a block, Files included, that no file carries: the
\* returned stanza has that key only if the extra fields had it.
C23_ChecksumBlocks ==
    [][(pkgpc = "built" /\ pkg.IsSource /\ pkgEv' = "Stanza") =>
          \A field \in DOMAIN ChecksumBlocks :
              LET sums == SumLines(pkg.files, ChecksumBlocks[field])
              IN  IF sums # <<>>
                  THEN /\ field \in DOMAIN result'
                       /\ result'[field] = Join(sums, <<>>)
                       /\ Len(sums) = Cardinality({i \in 1..Len(pkg.files) :
                                           pkg.files[i].Checksums[ChecksumBlocks[field]] # <<>>})
                  ELSE field \in DOMAIN result' => field \in DOMAIN pkg.extra]_vars

\* the fields the constructor of package p reads from its input, and the
\* checksum blocks the file-record parser may read
Extracted(p) ==
    IF p.IsSource
    THEN { <<"P","a","c","k","a","g","e">>, <<"V","e","r","s","i","o","n">>, <<"A","r","c","h","i","t","e","c","t","u","r","e">>, <<"F","i","l","e","s">>, <<"C","h","e","c","k","s","u","m","s","-","S","h","a","1">>,
           <<"C","h","e","c","k","s","u","m","s","-","S","h","a","2","5","6">>, <<"C","h","e","c","k","s","u","m","s","-","S","h","a","5","1","2">>, <<"D","i","r","e","c","t","o","r","y">>, <<"B","u","i","l","d","-","D","e","p","e","n","d","s">>,
           <<"B","u","i","l","d","-","D","e","p","e","n","d","s","-","I","n","d","e","p">> }
    ELSE ConsumedFields

\* C24: fields the binary or source constructor does not extract survive:
\* the stanza Stanza() returns holds such a field exactly when the input
\* stanza held it, with the value the input had.
C24_UnrecognizedSurvive ==
    (pkgpc = "built" /\ pkgEv = "Stanza" /\ ~pkg.IsInstaller) =>
        \A f \in (DOMAIN input0 \cup DOMAIN result) \ Extracted(pkg) :
            /\ f \in DOMAIN input0
            /\ f \in DOMAIN result
            /\ result[f] = input0[f]

\* a source package and a binary package have given back fields their
\* constructors do not know, one of them empty
C24_Witness ==
    /\ pkgpc = "built"
    /\ pkgEv = "Stanza"
    /\ \/ /\ pkg.IsSource
          /\ pkg.files # <<>>
          /\ Get(result, <<"D","e","p","e","n","d","s">>) = <<"q">>
          /\ Get(result, <<"X","-","C","u","s","t","o","m">>) = <<"1">>
          /\ Get(result, <<"S","o","u","r","c","e">>) = <<"b","a","r">>
       \/ /\ ~pkg.IsSource
          /\ pkg.deps.Depends.items # <<>>
          /\ <<"P","r","i","o","r","i","t","y">> \in DOMAIN result
          /\ Get(result, <<"D","e","s","c","r","i","p","t","i","o","n">>) = <<" ","d","\n">>

\* C25: a package built by NewSourcePackageFromControlFile from a stanza
\* with Architecture = a has Architecture "source" and SourceArchitecture a;
\* GetField("$Architecture") is "source" and GetField("Architecture") is a;
\* Stanza() has Architecture = a and sets no Source field: Source is there
\* only as the input had it.
C25_SourceArchitecture ==
    (pkgpc = "built" /\ pkg.IsSource) =>
        /\ pkg.Architecture = <<"s","o","u","r","c","e">>
        /\ pkg.SourceArchitecture = Get(input0, <<"A","r","c","h","i","t","e","c","t","u","r","e">>)
        /\ GetField(pkg, <<"$","A","r","c","h","i","t","e","c","t","u","r","e">>) = <<"s","o","u","r","c","e">>
        /\ GetField(pkg, <<"A","r","c","h","i","t","e","c","t","u","r","e">>) = Get(input0, <<"A","r","c","h","i","t","e","c","t","u","r","e">>)
        /\ pkgEv = "Stanza" =>
              /\ <<"A","r","c","h","i","t","e","c","t","u","r","e">> \in DOMAIN result
              /\ result[ <<"A","r","c","h","i","t","e","c","t","u","r","e">> ] = Get(input0, <<"A","r","c","h","i","t","e","c","t","u","r","e">>)
              /\ <<"S","o","u","r","c","e">> \in DOMAIN result <=> <<"S","o","u","r","c","e">> \in DOMAIN input0
              /\ Get(result, <<"S","o","u","r","c","e">>) = Get(input0, <<"S","o","u","r","c","e">>)

\* Stanza() of a source package built from a stanza with Architecture: any
\* and no Source
C25_Witness ==
    /\ pkgpc = "built"
    /\ pkgEv = "Stanza"
    /\ pkg.IsSource
    /\ pkg.Architecture = <<"s","o","u","r","c","e">>
    /\ Get(input0, <<"A","r","c","h","i","t","e","c","t","u","r","e">>) = <<"a","n","y">>
    /\ result[ <<"A","r","c","h","i","t","e","c","t","u","r","e">> ] = <<"a","n","y">>
    /\ <<"S","o","u","r","c","e">> \notin DOMAIN result

(***************************************************************************)
(* Keys, dependency matching and the lazily loaded records of a package    *)
(***************************************************************************)
\* a Key that prints the hash with no padding
Key_NoPadding(p, prefix) ==
    IF p.V06Plus
    THEN prefix \o <<"P">> \o p.Architecture \o <<" ">> \o p.Name \o <<" ">> \o p.Version
             \o <<" ">> \o p.FilesHash
    ELSE prefix \o <<"P">> \o p.Architecture \o <<" ">> \o p.Name \o <<" ">> \o p.Version

\* Package.ShortKey(prefix)
ShortKey(p, prefix) ==
    prefix \o <<"P">> \o p.Architecture \o <<" ">> \o p.Name \o <<" ">> \o p.Version

\* fmt.Sprintf("%08x", h) of the 64-bit h, which is held as its lowercase
\* hexadecimal numeral: zeros are put before it up to the width 8
Sprintf08x(h) ==
    IF Len(h) >= 8 THEN h ELSE [i \in 1..(8 - Len(h)) |-> "0"] \o h

\* Package.Key(prefix)
Key(p, prefix) ==
    IF p.V06Plus
    THEN prefix \o <<"P">> \o p.Architecture \o <<" ">> \o p.Name \o <<" ">> \o p.Version
             \o <<" ">> \o Sprintf08x(p.FilesHash)
    ELSE ShortKey(p, prefix)

\* Package.MatchesArchitecture(arch)
MatchesArchitecture(p, arch) ==
    IF p.Architecture = <<"a","l","l">> /\ arch # <<"s","o","u","r","c","e">> THEN TRUE
    ELSE p.Architecture = arch

\* the relations of a dependency
Relations ==
    {"VersionDontCare", "VersionEqual", "VersionLess", "VersionGreater",
     "VersionLessOrEqual", "VersionGreaterOrEqual", "VersionPatternMatch", "VersionRegexp"}

\* Package.MatchesDependency(dep): r is what CompareVersions(p.Version,
\* dep.Version) returns, matched what filepath.Match or the regular
\* expression finds
MatchesDependency(p, dep, r, matched) ==
    LET return(b) == [panic |-> FALSE, value |-> b]
    IN  IF dep.Architecture # <<>> /\ ~MatchesArchitecture(p, dep.Architecture)
        THEN return(FALSE)
        ELSE IF dep.Relation = "VersionDontCare"
        THEN IF ~p.Provides.nil /\ \E i \in 1..Len(p.Provides.items) :
                                       p.Provides.items[i] = dep.Pkg
             THEN return(TRUE)
             ELSE return(dep.Pkg = p.Name)
        ELSE IF dep.Pkg # p.Name THEN return(FALSE)
        ELSE IF dep.Relation = "VersionEqual" THEN return(r = 0)
        ELSE IF dep.Relation = "VersionLess" THEN return(r < 0)
        ELSE IF dep.Relation = "VersionGreater" THEN return(r > 0)
        ELSE IF dep.Relation = "VersionLessOrEqual" THEN return(r <= 0)
        ELSE IF dep.Relation = "VersionGreaterOrEqual" THEN return(r >= 0)
        ELSE IF dep.Relation = "VersionPatternMatch" THEN return(matched)
        ELSE IF dep.Relation = "VersionRegexp" THEN return(matched)
        ELSE [panic |-> TRUE, value |-> FALSE]

\* the record the collection loads for a package
LoadedRecord(rec) ==
    IF rec = "extra" THEN StanzaOf(<< << <<"D","e","s","c","r","i","p","t","i","o","n">>, <<" ","d","\n">> >> >>)
    ELSE IF rec = "deps"
    THEN [Depends |-> List(<< <<"a">> >>), PreDepends |-> NilList, Suggests |-> NilList,
          Recommends |-> NilList, BuildDepends |-> NilList, BuildDependsInDep |-> NilList]
    ELSE << [Filename |-> <<"g",".","d","e","b">>, downloadPath |-> <<"p","o","o","l">>,
             Checksums |-> [Size |-> 7, MD5 |-> <<>>, SHA1 |-> <<"t">>, SHA256 |-> <<>>,
                            SHA512 |-> <<>>]] >>

\* an accessor that loads the record and does not keep it
Access_NoCache(p, rec) ==
    IF rec \notin p.nil THEN [pkg |-> p, load |-> FALSE, panic |-> FALSE, value |-> p[rec]]
    ELSE IF ~p.collection
    THEN [pkg |-> p, load |-> FALSE, panic |-> TRUE, value |-> <<>>]
    ELSE [pkg |-> p, load |-> TRUE, panic |-> FALSE, value |-> LoadedRecord(rec)]

\* Package.Extra(), Deps() and Files() for rec = "extra", "deps", "files":
\* the package as the call leaves it, whether the collection was called,
\* whether the call panicked, and the record returned
Access(p, rec) ==
    IF rec \notin p.nil THEN [pkg |-> p, load |-> FALSE, panic |-> FALSE, value |-> p[rec]]
    ELSE IF ~p.collection
    THEN [pkg |-> p, load |-> FALSE, panic |-> TRUE, value |-> <<>>]
    ELSE [pkg |-> [p EXCEPT ![rec] = LoadedRecord(rec), !.nil = @ \ {rec}],
          load |-> TRUE, panic |-> FALSE, value |-> LoadedRecord(rec)]

\* the most loads of one record that are followed
MaxLoads == 2

\* the packages the constructors give
ConstructedPackages ==
    UNION {{ NewPackageFromControlFile(Merge(ScenarioPackage,
                 StanzaOf(<< << <<"P","r","o","v","i","d","e","s">>, <<"b","a","r">> >>, << <<"F","i","l","e","n","a","m","e">>, <<"p","o","o","l","/","f",".","d","e","b">> >> >>)),
                 hash).pkg,
             NewUdebPackageFromControlFile(ScenarioPackage, hash).pkg,
             NewSourcePackageFromControlFile(
                 StanzaOf(<< << <<"P","a","c","k","a","g","e">>, <<"f","o","o">> >>, << <<"V","e","r","s","i","o","n">>, <<"1",".","0">> >>,
                             << <<"A","r","c","h","i","t","e","c","t","u","r","e">>, <<"a","n","y">> >>,
                             << <<"F","i","l","e","s">>, <<" ","m","1"," ","3"," ","f",".","d","s","c","\n">> >> >>), hash).pkg,
             NewInstallerPackageFromControlFile(
                 StanzaOf(<< << <<>>, <<"a","b","c"," "," ","f","1","\n">> >> >>), <<"a","l","l">>, 3, FALSE, hash).pkg }
           : hash \in HashValues}

\* the values FilesHash has in a package that comes from the store
StoredHashes == { <<"0">>, <<"8","9","a","b","c","d","e","f">> }

\* the packages that come from the store: identity fields only, each record
\* nil or loaded, with or without a collection
RehydratedPackages ==
    { [Name |-> <<"f","o","o">>, Version |-> <<"1",".","0">>, Architecture |-> arch,
       SourceArchitecture |-> <<>>, Source |-> <<>>, Provides |-> List(<< <<"b","a","r">> >>),
       FilesHash |-> hash, IsInstaller |-> FALSE, IsSource |-> FALSE, IsUdeb |-> FALSE,
       V06Plus |-> v06,
       deps |-> IF "deps" \in nil THEN <<>> ELSE LoadedRecord("deps"),
       extra |-> IF "extra" \in nil THEN <<>> ELSE LoadedRecord("extra"),
       files |-> IF "files" \in nil THEN <<>> ELSE LoadedRecord("files"),
       nil |-> nil, collection |-> collection] :
      arch \in { <<"a","m","d","6","4">>, <<"a","l","l">> }, hash \in StoredHashes, v06 \in BOOLEAN,
      nil \in SUBSET Records, collection \in BOOLEAN }

\* the dependencies a package is matched against
Dependencies ==
    [Pkg : { <<"f","o","o">>, <<"b","a","r">>, <<"b","a","z">> }, Architecture : { <<>>, <<"i","3","8","6">> },
     Version : { <<"1",".","0">> }, Relation : Relations \cup {"unknown"}]

\* a read call leaves the package as p
Called(fn, arg, out, p) ==
    /\ pkgpc \in {"built", "rehydrated"}
    /\ call' = [fn |-> fn, arg |-> arg, out |-> out]
    /\ pkg' = p
    /\ UNCHANGED <<input0, input, pkgpc, pkgEv, result, parsed, alias, codecVars, importVars,
                   caseVars, stanzaVars>>

\* p.Key(prefix)
CallKey ==
    \E prefix \in { <<>>, <<"x">> } :
        /\ Called("Key", prefix, [panic |-> FALSE, value |-> Key(pkg, prefix)], pkg)
        /\ UNCHANGED loads

\* p.ShortKey(prefix)
CallShortKey ==
    \E prefix \in { <<>>, <<"x">> } :
        /\ Called("ShortKey", prefix, [panic |-> FALSE, value |-> ShortKey(pkg, prefix)], pkg)
        /\ UNCHANGED loads

\* p.MatchesDependency(dep)
CallMatchesDependency ==
    \E dep \in Dependencies, r \in {-1, 0, 1}, matched \in BOOLEAN :
        /\ Called("MatchesDependency", dep, MatchesDependency(pkg, dep, r, matched), pkg)
        /\ UNCHANGED loads

\* the accessor of the record rec is called
CallAccess(fn, rec) ==
    /\ loads[rec] < MaxLoads
    /\ Called(fn, rec, [panic |-> Access(pkg, rec).panic, value |-> Access(pkg, rec).value],
              Access(pkg, rec).pkg)
    /\ loads' = IF Access(pkg, rec).load THEN [loads EXCEPT ![rec] = @ + 1] ELSE loads

\* p.Extra()
CallExtra == CallAccess("Extra", "extra")

\* p.Deps()
CallDeps == CallAccess("Deps", "deps")

\* p.Files()
CallFiles == CallAccess("Files", "files")

InitRead ==
    /\ ImportOff
    /\ CodecOff
    /\ CaseOff
    /\ StanzaOff
    /\ input0 = EmptyStanza
    /\ input = EmptyStanza
    /\ \/ pkg \in ConstructedPackages /\ pkgpc = "built"
       \/ pkg \in RehydratedPackages /\ pkgpc = "rehydrated"
    /\ pkgEv = "input"
    /\ result = EmptyStanza
    /\ parsed = EmptyStanza
    /\ alias = "none"
    /\ ReadOff

NextRead ==
    \/ CallKey
    \/ CallShortKey
    \/ CallMatchesDependency
    \/ CallExtra
    \/ CallDeps
    \/ CallFiles

SpecRead == InitRead /\ [][NextRead]_vars

\* the lowercase hexadecimal digits
HexDigits == {"0", "1", "2", "3", "4", "5", "6", "7", "8", "9", "a", "b", "c", "d", "e", "f"}

\* the numeral h without the zeros it starts with
RECURSIVE StripZeros(_)
StripZeros(h) == IF Len(h) > 1 /\ Head(h) = "0" THEN StripZeros(Tail(h)) ELSE h

\* what the key returned holds after the short key and a space
KeyHash ==
    SubSeq(call.out.value, Len(ShortKey(pkg, call.arg)) + 2, Len(call.out.value))

\* C27 as stated: Key(prefix) of a package with V06Plus is ShortKey(prefix),
\* a space and exactly 8 lowercase hexadecimal digits, for every FilesHash.
C27_Claimed ==
    (call.fn = "Key" /\ pkg.V06Plus) =>
        /\ Len(call.out.value) = Len(ShortKey(pkg, call.arg)) + 9
        /\ \A i \in 1..Len(KeyHash) : KeyHash[i] \in HexDigits

\* C27: ShortKey(prefix) is prefix, "P", then Architecture, Name and Version
\* with a space between them; Key(prefix) is ShortKey(prefix) when V06Plus is
\* false, and otherwise ShortKey(prefix), a space and FilesHash in lowercase
\* hexadecimal with zeros before it up to 8 digits: 8 digits when FilesHash
\* is below 2^32, all the digits of the value (9 to 16) above.
C27_Key ==
    /\ call.fn = "ShortKey" =>
          call.out.value = call.arg \o <<"P">>
                               \o Join(<<pkg.Architecture, pkg.Name, pkg.Version>>, <<" ">>)
    /\ (call.fn = "Key" /\ ~pkg.V06Plus) => call.out.value = ShortKey(pkg, call.arg)
    /\ (call.fn = "Key" /\ pkg.V06Plus) =>
          /\ Len(call.out.value) >= Len(ShortKey(pkg, call.arg)) + 9
          /\ SubSeq(call.out.value, 1, Len(ShortKey(pkg, call.arg)) + 1)
                 = ShortKey(pkg, call.arg) \o <<" ">>
          /\ \A i \in 1..Len(KeyHash) : KeyHash[i] \in HexDigits
          /\ StripZeros(KeyHash) = pkg.FilesHash
          /\ Len(KeyHash) = IF Len(pkg.FilesHash) <= 8 THEN 8 ELSE Len(pkg.FilesHash)

\* the key of a package whose FilesHash needs 16 digits has been taken, and
\* holds all 16
C27_Witness ==
    /\ call.fn = "Key"
    /\ pkg.V06Plus
    /\ Len(pkg.FilesHash) = 16
    /\ KeyHash = pkg.FilesHash

\* C28: MatchesDependency called with a relation outside the closed set
\* panics and returns no boolean, whatever the package name and the
\* architecture qualifier of the dependency are.
C28_UnknownRelationPanics ==
    (call.fn = "MatchesDependency" /\ call.arg.Relation \notin Relations) =>
        call.out.panic

\* the accessor of each lazily loaded record
Accessors == [extra |-> "Extra", deps |-> "Deps", files |-> "Files"]

\* C26: a package built by a constructor has its extra fields, dependencies
\* and files populated and never calls the collection. For a package from
\* the store, an access to a record that is nil panics when no collection is
\* attached and otherwise loads the record from the collection and keeps
\* it; an access to a record that is there returns it with no call of the
\* collection, so each record is loaded at most once.
C26_LazyRecords ==
    /\ [](/\ pkgpc = "built" =>
                /\ pkg.nil = {}
                /\ \A rec \in Records : loads[rec] = 0
                /\ call.fn \in {"Extra", "Deps", "Files"} => ~call.out.panic
          /\ \A rec \in Records : loads[rec] <= 1)
    /\ [][\A rec \in Records :
             call'.fn = Accessors[rec] =>
                 IF rec \notin pkg.nil
                 THEN /\ ~call'.out.panic
                      /\ call'.out.value = pkg[rec]
                      /\ loads' = loads
                      /\ pkg' = pkg
                 ELSE IF ~pkg.collection
                 THEN /\ call'.out.panic
                      /\ loads' = loads
                      /\ pkg' = pkg
                 ELSE /\ ~call'.out.panic
                      /\ loads' = [loads EXCEPT ![rec] = @ + 1]
                      /\ pkg'.nil = pkg.nil \ {rec}
                      /\ call'.out.value = pkg'[rec]]_vars

\* a package from the store has loaded its files and its extra fields from
\* the collection, each once
C26_Witness ==
    /\ pkgpc = "rehydrated"
    /\ pkg.collection
    /\ call.fn = "Files"
    /\ ~call.out.panic
    /\ call.out.value = pkg.files
    /\ loads.files = 1
    /\ loads.extra = 1
    /\ pkg.nil = {"deps"}

(***************************************************************************)
(* A reader driven with one reusable buffer                                *)
(***************************************************************************)
\* buf.Clear(); err := c.ReadBufferedStanza(buf): stanza is the caller's
\* buffer, kept from call to call, and ret.err the error returned
CallReadBufferedStanza ==
    /\ pc = "idle"
    /\ ncalls < MaxCalls
    /\ pc' = "scan"
    /\ ncalls' = ncalls + 1
    /\ start' = pos
    /\ stanza' = Clear(stanza)
    /\ lastField' = <<>>
    /\ lastFieldMultiline' = isInstaller
    /\ lastValue' = <<>>
    /\ ev' = "call"
    /\ UNCHANGED <<Other, Config, lines, pos, scanErr, ret, Writer>>

InitBuf ==
    /\ ImportOff
    /\ \E b \in Inputs : CodecInit(b)
    /\ CaseOff
    /\ StanzaOff
    /\ PkgOff

NextBuf ==
    \/ CallReadBufferedStanza
    \/ ScanTooLong
    \/ ScanEnd
    \/ ScanBlank
    \/ ScanMalformed
    \/ ScanField
    \/ ScanContinuation

SpecBuf == InitBuf /\ [][NextBuf]_vars

\* ReadBufferedStanza as one step, on the lines ls after the first p, with
\* the scanner's error serr: the buffer s as the call leaves it, the error
\* returned, and the scanner after the call
RECURSIVE ReadBufferedStanza(_, _, _, _, _, _, _)
ReadBufferedStanza(ls, p, serr, s, field, multiline, value) ==
    IF serr # "nil" \/ p = Len(ls)
    THEN [stanza |-> s, err |-> serr, pos |-> p, scanErr |-> serr]
    ELSE IF ByteLen(ls[p + 1]) >= MaxFieldSize
    THEN [stanza |-> s, err |-> "ErrTooLong", pos |-> p, scanErr |-> "ErrTooLong"]
    ELSE LET line == dropCR(ls[p + 1])
             finished == ~(line[1] = " " \/ line[1] = "\t" \/ isInstaller)
             split == IndexByte(line, ":")
             name == canonicalCase(SubSeq(line, 1, split))
             rest == SubSeq(line, split + 2, Len(line))
             first == IF isMultilineField(name, isRelease)
                      THEN IF Len(rest) > 0 THEN rest \o <<"\n">> ELSE <<>>
                      ELSE TrimSpace(rest)
             more == IF multiline THEN value \o line \o <<"\n">>
                     ELSE value \o <<" ">> \o TrimSpace(line)
         IN  IF line = <<>>
             THEN IF ~Empty(s)
                  THEN [stanza |-> s, err |-> "nil", pos |-> p + 1, scanErr |-> serr]
                  ELSE ReadBufferedStanza(ls, p + 1, serr, s, field, multiline, value)
             ELSE IF finished /\ split = -1
             THEN [stanza |-> s, err |-> "ErrMalformedStanza", pos |-> p + 1,
                   scanErr |-> serr]
             ELSE IF finished
             THEN ReadBufferedStanza(ls, p + 1, serr, Put(s, name, first), name,
                                     isMultilineField(name, isRelease), first)
             ELSE ReadBufferedStanza(ls, p + 1, serr, Put(s, field, more), field,
                                     multiline, more)

\* the n-th ReadStanza on a new reader of the stream: what it returns, and
\* the scanner after it
RECURSIVE ReadStanza(_)
ReadStanza(n) ==
    LET before == IF n = 1 THEN [pos |-> 0, scanErr |-> "nil"] ELSE ReadStanza(n - 1)
        r == ReadBufferedStanza(lines, before.pos, before.scanErr, EmptyStanza, <<>>,
                                isInstaller, <<>>)
    IN  [ret |-> ReadStanzaResult(r.stanza, r.err), pos |-> r.pos, scanErr |-> r.scanErr]

\* C32: reading with one reusable buffer through Clear(); ReadBufferedStanza
\* gives, call by call, the value Get(key) that the stanza returned by the
\* ReadStanza of the same number has for every key, and the buffer is Empty()
\* exactly when that ReadStanza returns nil.
C32_BufferedAsFresh ==
    (pc = "idle" /\ ncalls >= 1) =>
        /\ \A key \in DOMAIN stanza \cup DOMAIN ReadStanza(ncalls).ret.stanza :
               Get(stanza, key) = Get(ReadStanza(ncalls).ret.stanza, key)
        /\ HasValue(stanza) <=> ~ReadStanza(ncalls).ret.nil

\* C34: when ReadBufferedStanza returns ErrMalformedStanza on a buffer that
\* was Empty() before the call, the buffer is Empty() after it: it holds no
\* non-empty field of the paragraph that failed.
C34_EmptyAfterMalformed ==
    (pc = "idle" /\ ret.err = "ErrMalformedStanza") => ~HasValue(stanza)

\* C33: a stanza the reader returns holds fields of one paragraph only: among
\* the lines the call consumed, no blank line stands between two lines that
\* gave it a field, also when the paragraph before the blank line has only
\* fields with empty values.
C33_SingleParagraph ==
    (pc = "idle" /\ ~ret.nil) =>
        ~\E i, b, j \in (start + 1)..pos :
            /\ i < b /\ b < j
            /\ Line(b) = <<>>
            /\ Line(i) # <<>>
            /\ Line(j) # <<>>

(***************************************************************************)
(* ImportPackageFiles (part_002).  The collaborators of the function (the  *)
(* archive readers, the pool, the collection, the database and the package *)
(* list) are outside this source: each of their calls that can fail either *)
(* fails or succeeds.  One action is one pass of the loop over             *)
(* packageFiles.                                                           *)
(***************************************************************************)

\* strings.HasSuffix
HasSuffix(s, suffix) ==
    /\ Len(s) >= Len(suffix)
    /\ SubSeq(s, Len(s) - Len(suffix) + 1, Len(s)) = suffix

\* length of the longest batch
MaxFiles == 2

\* the files a batch is made of
ImportFiles == {<<"a",".","d","e","b">>, <<"b",".","d","s","c">>, <<"c",".","u","d","e","b">>}

\* the batches: up to MaxFiles different files
Batches ==
    {fs \in UNION {[1..n -> ImportFiles] : n \in 0..MaxFiles} :
        \A i, j \in 1..Len(fs) : i # j => fs[i] # fs[j]}

\* the package the control data of a file describes
PackageOf(file) ==
    [Name |-> <<Head(file)>>, Version |-> <<"1">>,
     Architecture |-> IF HasSuffix(file, <<".","d","s","c">>) THEN <<"s","o","u","r","c","e">> ELSE <<"a","m","d","6","4">>,
     Hash |-> <<"n","e","w">>]

\* the other files a source package lists (p.Files()), as paths next to the .dsc
Companions(file, isSourcePackage) ==
    IF isSourcePackage THEN << <<Head(file)>> \o <<".","t","a","r">> >> ELSE <<>>

\* a package that is in the list already, with the identity of the one a.deb holds
OldPackage == [Name |-> <<"a">>, Version |-> <<"1">>, Architecture |-> <<"a","m","d","6","4">>, Hash |-> <<"o","l","d">>]

\* list.Search(Dependency{Pkg, Version, Relation: VersionEqual, Architecture}, true)
ConflictingPackages(l, p) ==
    {cp \in l : cp.Name = p.Name /\ cp.Version = p.Version /\ cp.Architecture = p.Architecture}

\* the failures after which the loop appends file to failedFiles and continues
ContinueOn == {"read", "name", "version", "architecture", "pool", "companion",
              "restriction", "save"}

\* the file the loop visits next
File == packageFiles[Len(outcomes) + 1]

InLoop == importpc = "loop" /\ Len(outcomes) < Len(packageFiles)

\* if forceReplace { list.PrepareIndex() }; transaction, err := OpenTransaction()
ImportOpenTransaction ==
    /\ importpc = "open"
    /\ \/ /\ transaction' = "open"
          /\ importpc' = "loop"
          /\ UNCHANGED importErr
       \/ /\ importErr' = "OpenTransaction"
          /\ importpc' = "returned"
          /\ UNCHANGED transaction
    /\ UNCHANGED <<packageFiles, forceReplace, restricted, packageList, listBefore, updated,
                   processedFiles, failedFiles, outcomes, codecVars, caseVars, stanzaVars,
                   pkgVars>>

\* a pass that ends in `failedFiles = append(failedFiles, file); continue`
\* before the package reaches the list
ImportFailed ==
    /\ InLoop
    /\ \E o \in ContinueOn :
        /\ o = "companion" => Companions(File, HasSuffix(File, <<".","d","s","c">>)) # <<>>
        /\ o = "restriction" => restricted
        /\ outcomes' = Append(outcomes, o)
    /\ failedFiles' = Append(failedFiles, File)
    /\ UNCHANGED <<packageFiles, forceReplace, restricted, packageList, listBefore,
                   transaction, updated, processedFiles, importErr, importpc, codecVars,
                   caseVars, stanzaVars, pkgVars>>

\* checksums, err = utils.ChecksumsForFile(file); if err != nil { return nil, nil, err }
\* and the deferred transaction.Discard()
ImportChecksumsForFile ==
    /\ InLoop
    /\ outcomes' = Append(outcomes, "checksums")
    /\ processedFiles' = <<>>
    /\ failedFiles' = <<>>
    /\ importErr' = "ChecksumsForFile"
    /\ transaction' = "discarded"
    /\ importpc' = "returned"
    /\ UNCHANGED <<packageFiles, forceReplace, restricted, packageList, listBefore, updated,
                   codecVars, caseVars, stanzaVars, pkgVars>>

\* a pass in which collection.UpdateInTransaction(p, transaction) succeeds:
\* the conflicting packages leave the list under forceReplace, then list.Add(p)
ImportUpdateInTransaction ==
    /\ InLoop
    /\ LET file == File
           p == PackageOf(file)
           kept == IF forceReplace
                     THEN packageList \ ConflictingPackages(packageList, p)
                     ELSE packageList
       IN  /\ updated' = updated \cup {p}
           /\ \/ /\ outcomes' = Append(outcomes, "add")
                 /\ packageList' = kept
                 /\ failedFiles' = Append(failedFiles, file)
                 /\ UNCHANGED processedFiles
              \/ \E onDisk \in BOOLEAN :
                 /\ outcomes' = Append(outcomes, "ok")
                 /\ packageList' = kept \cup {p}
                 /\ processedFiles' = processedFiles \o <<file>> \o
                        IF onDisk THEN Companions(file, HasSuffix(file, <<".","d","s","c">>)) ELSE <<>>
                 /\ UNCHANGED failedFiles
    /\ UNCHANGED <<packageFiles, forceReplace, restricted, listBefore, transaction,
                   importErr, importpc, codecVars, caseVars, stanzaVars, pkgVars>>

\* err = transaction.Commit(); return   and the deferred transaction.Discard()
ImportCommit ==
    /\ importpc = "loop"
    /\ Len(outcomes) = Len(packageFiles)
    /\ \/ transaction' = "committed" /\ importErr' = "nil"
       \/ transaction' = "discarded" /\ importErr' = "Commit"
    /\ importpc' = "returned"
    /\ UNCHANGED <<packageFiles, forceReplace, restricted, packageList, listBefore, updated,
                   processedFiles, failedFiles, outcomes, codecVars, caseVars, stanzaVars,
                   pkgVars>>

InitImport ==
    /\ CodecOff
    /\ CaseOff
    /\ StanzaOff
    /\ PkgOff
    /\ packageFiles \in Batches
    /\ forceReplace \in BOOLEAN
    /\ restricted \in BOOLEAN
    /\ packageList \in SUBSET {OldPackage}
    /\ listBefore = packageList
    /\ transaction = "none"
    /\ updated = {}
    /\ processedFiles = <<>>
    /\ failedFiles = <<>>
    /\ importErr = "nil"
    /\ outcomes = <<>>
    /\ importpc = "open"

NextImport ==
    \/ ImportOpenTransaction
    \/ ImportFailed
    \/ ImportChecksumsForFile
    \/ ImportUpdateInTransaction
    \/ ImportCommit

SpecImport == InitImport /\ [][NextImport]_vars

\* C31: in ImportPackageFiles every failure that concerns one file puts the
\* file in failedFiles and the loop goes on to the remaining files; no file
\* is in both processedFiles and failedFiles; the call returns before it has
\* visited every file only when the transaction could not be opened, and
\* returns an error only when the transaction could not be opened or committed.
C31_PerFileFailures ==
    /\ \A i \in 1..Len(outcomes) :
           outcomes[i] # "ok" => InList(failedFiles, packageFiles[i])
    /\ ~\E file \in ImportFiles : InList(processedFiles, file) /\ InList(failedFiles, file)
    /\ importpc = "returned" =>
           /\ importErr \in {"nil", "OpenTransaction", "Commit"}
           /\ importErr # "OpenTransaction" => Len(outcomes) = Len(packageFiles)

\* C35: when ImportPackageFiles has returned, with nil or with an error, the
\* package list differs from the list it was given only if the transaction
\* was committed, and every package added to it was written to the
\* collection in that transaction.
C35_ListMatchesCommitted ==
    importpc = "returned" =>
        /\ packageList # listBefore => transaction = "committed"
        /\ (packageList \ listBefore) \subseteq updated

====
